---- MODULE Spec2Model ----
(***************************************************************************)
(* vault-embedder: the incremental indexer (indexer.py), its ledger        *)
(* (walker.py IndexState) and the file walker (walker.py VaultWalker),     *)
(* run against a file tree, a persisted ledger file and a Qdrant           *)
(* collection.                                                             *)
(*                                                                         *)
(* A document is one of three contents: 0 is a document that chunks to no  *)
(* unit, 1 to one unit, 2 to two units.  Embedder and VectorStore calls    *)
(* either succeed or raise; a call that raises has no effect on the store. *)
(***************************************************************************)
EXTENDS Integers, Sequences, FiniteSets, TLC

\* ------------------------------------------------------------------ bounds
MaxIds == 3        \* uuid4 values drawn in one behaviour
MaxFaults == 2     \* Embedder / VectorStore / file-read calls that raise
MaxEdits == 2      \* edits of the file tree in one behaviour
MaxLines == 4      \* lines of a content given to chunk()
MaxText == 4       \* characters of a buffer given to _get_overlap()

Paths == {"a.md", "b.md"}
PathOrder == <<"a.md", "b.md">>      \* the order rglob and dict iteration yield
Contents == {0, 1, 2}
MTimes == {1, 2}

\* ------------------------------------------------------------ config.py
DefaultDimensions == 384
Dimensions == {DefaultDimensions, 768}
include_extensions == {".md"}

\* ------------------------------------------------------------- helpers
Range(s) == {s[i] : i \in 1..Len(s)}

NoFile == [exists |-> FALSE, content |-> 0, mtime |-> 0]
NoFileInfo == [relative_path |-> "", mtime |-> 0, content_hash |-> ""]
NoCollection == [exists |-> FALSE, dim |-> 0, points |-> {}]
NoFiles == [none |-> TRUE, list |-> <<>>]
EmptyLedger == [p \in {} |-> [hash |-> "", mtime |-> 0, chunk_ids |-> <<>>]]
NoLedgerFile == [exists |-> FALSE, files |-> EmptyLedger]
NoDocument == [exists |-> FALSE, kind |-> "", files_kind |-> "", files |-> EmptyLedger]
NoLoad == [called |-> FALSE, raised |-> "", files_kind |-> "", files |-> EmptyLedger]
NoChunks == [yielded |-> FALSE, list |-> <<>>]
NoOverlap == [returned |-> FALSE, text |-> <<>>]
NoChunker == [chunk_size |-> 0, chunk_overlap |-> 0, min_chunk_size |-> 0]
NoInfo == [indexed_files |-> 0, total_chunks |-> 0]
NoTree == [p \in {} |-> ""]
NoIgnoreFile == [exists |-> FALSE, lines |-> <<>>]
NoWalker == [made |-> FALSE, include_extensions |-> {}, exclude_patterns |-> <<>>,
             exclude_spec |-> <<>>]
NoWalk == [yielded |-> FALSE, list |-> <<>>]
NoRemote == [exists |-> FALSE, vectors |-> "", size |-> 0]
NoSearcher == [made |-> FALSE, verify_schema |-> FALSE, model_dimensions |-> 0,
               _client |-> FALSE, _schema_verified |-> FALSE]
NoCalls == [op |-> "", embeds |-> 0, get_collections |-> 0, scrolls |-> 0,
            queries |-> 0, raised |-> ""]
Instances == {1, 2}
NoRun == [pc |-> "idle", ran |-> FALSE, force |-> FALSE, loaded |-> FALSE,
          files |-> EmptyLedger, file_infos |-> <<>>, file_info |-> NoFileInfo,
          old_chunk_ids |-> <<>>, content |-> 0, chunk_ids |-> <<>>,
          deleted |-> <<>>]
NoIo == [walks |-> 0, reads |-> 0, embeds |-> 0, deletes |-> 0, upserts |-> 0,
         saves |-> 0, last |-> ""]

\* FileInfo.compute_hash: the xxh64 hex digest of the decoded content.
xxh64(c) ==
    CASE c = 0 -> "ef46db3751d8e999"
      [] c = 1 -> "xxh64:doc1"
      [] c = 2 -> "xxh64:doc2"

\* MarkdownChunker.chunk, as far as the indexer uses it: the number of units.
ChunkCount(c) == c

\* Python truthiness of the files argument: None and [] are both falsy.
Truthy(f) == ~f.none /\ Len(f.list) > 0

\* IndexResult()
IndexResult ==
    [files_processed |-> 0, files_skipped |-> 0, files_deleted |-> 0,
     chunks_added |-> 0, chunks_removed |-> 0, errors |-> <<>>]

VARIABLES
    fs,                \* the vault: path -> [exists, content, mtime]
    disk,              \* the ledger file at config.state_path
    collection,        \* the Qdrant collection: [exists, dim, points]
    model_dimensions,  \* config.model_dimensions
    state,             \* VaultIndexer._state: [loaded, files]
    pc,                \* position of the indexer
    op,                \* the VaultIndexer method in progress or just ended
    files, force,      \* arguments of the index() call
    relative_path,     \* argument of the delete_file() call
    ret,               \* value returned by delete_file()
    info,              \* dict returned by status()
    file_infos,        \* working-set entries not yet visited
    file_info,         \* the loop variable
    old_chunk_ids, content, chunk_ids,   \* locals of the loop body
    deleted,           \* find_deleted() entries not yet purged
    result,            \* the IndexResult being built
    nextId,            \* uuid4 values drawn so far
    faults,            \* calls that raised so far
    edits,             \* file-tree edits so far
    pre,               \* ledger, store and ledger file when the call began
    io,                \* I/O issued by the call in progress
    prechecked,        \* ensure_collection() returned in this call
    thrown,            \* the steps of the loop body that raised in this call
    prevClean,         \* the last call was a full index() without errors,
                       \* and the tree is unchanged since
    ledger_path,       \* IndexState.load alone: the file at the path given
    load_ret,          \* IndexState.load alone: what the call returned or raised
    chunker,           \* MarkdownChunker alone: the constructor's arguments
    doc,               \* MarkdownChunker alone: the content given to chunk()
    chunks,            \* MarkdownChunker alone: the Chunks chunk() yielded
    overlap,           \* MarkdownChunker alone: what _get_overlap(doc) returned
    tree,              \* VaultWalker alone: what is under vault_path
    gitignore,         \* VaultWalker alone: the lines of vault_path/.gitignore
    walker,            \* VaultWalker alone: the walker constructed
    walked,            \* VaultWalker alone: the FileInfos walk() yielded
    qdrant,            \* VaultSearcher alone: the collection as Qdrant holds it
    searcher,          \* VaultSearcher alone: the searcher constructed
    sio,               \* VaultSearcher alone: what its last call sent to Qdrant
    runs               \* two indexers at once: each instance's position,
                       \* ledger in memory and locals

vars == <<fs, disk, collection, model_dimensions, state, pc, op, files, force,
          relative_path, ret, info, file_infos, file_info, old_chunk_ids, content,
          chunk_ids, deleted, result, nextId, faults, edits, pre, io, prechecked,
          thrown, prevClean, ledger_path, load_ret, chunker, doc, chunks, overlap,
          tree, gitignore, walker, walked, qdrant, searcher, sio, runs>>

env == <<fs, model_dimensions, edits>>
args == <<op, files, force, relative_path, ret, info>>
hist == <<pre, prechecked, thrown>>
locals == <<file_infos, file_info, old_chunk_ids, content, chunk_ids, deleted>>

\* The variables of each part of the program.
indexerVars == <<env, disk, collection, state, pc, args, locals, result, nextId,
                 faults, hist, io, prevClean>>
loaderVars == <<ledger_path, load_ret>>
chunkerVars == <<chunker, doc, chunks, overlap>>
walkerVars == <<tree, gitignore, walker, walked>>
searcherVars == <<qdrant, searcher, sio>>
pairVars == <<runs>>

\* ------------------------------------------------------ walker.py: ledger
\* IndexState.load: a missing file yields an empty ledger.
load(d) == IF d.exists THEN d.files ELSE EmptyLedger

\* IndexState.save: the whole document is written.
save(st) == [exists |-> TRUE, files |-> st]

\* VaultIndexer.state: loads the ledger file on first use.
StateFiles == IF state.loaded THEN state.files ELSE load(disk)

\* A ledger that also compares modification times.
needs_reindex_mtime(st, fi) ==
    IF fi.relative_path \notin DOMAIN st THEN TRUE
    ELSE \/ st[fi.relative_path].hash # fi.content_hash
         \/ st[fi.relative_path].mtime # fi.mtime

needs_reindex(st, fi) ==
    IF fi.relative_path \notin DOMAIN st THEN TRUE
    ELSE st[fi.relative_path].hash # fi.content_hash

\* A ledger that records the FileInfo's initial, empty content_hash.
update_file_nohash(st, fi, ids) ==
    [p \in DOMAIN st \cup {fi.relative_path} |->
        IF p = fi.relative_path
        THEN [hash |-> "", mtime |-> fi.mtime, chunk_ids |-> ids]
        ELSE st[p]]

update_file(st, fi, ids) ==
    [p \in DOMAIN st \cup {fi.relative_path} |->
        IF p = fi.relative_path
        THEN [hash |-> fi.content_hash, mtime |-> fi.mtime, chunk_ids |-> ids]
        ELSE st[p]]

\* IndexState.remove_file: the value returned ...
remove_file_ids(st, p) == IF p \in DOMAIN st THEN st[p].chunk_ids ELSE <<>>

\* ... and the ledger it leaves.
remove_file(st, p) == [q \in DOMAIN st \ {p} |-> st[q]]

\* ------------------------------------------------------ walker.py: walker
suffix(p) ==
    CASE p = "a.md" -> ".md" [] p = "b.md" -> ".md"
      [] p = "B.MD" -> ".MD" [] p = "c.txt" -> ".txt"
      [] p = "d.md" -> ".md" [] p = "sub/e.md" -> ".md"

Min(S) == CHOOSE x \in S : \A y \in S : x <= y
Max(S) == CHOOSE x \in S : \A y \in S : x >= y

\* pathspec, GitWildMatchPattern: a line that begins with "!" is a pattern
\* that includes again what it matches; the patterns in use and the paths
\* their globs match (matching is case-sensitive).
PatternLines == {"*.md", "!a.md", "sub/"}

GitWildMatchPattern(line) ==
    CASE line = "*.md" -> [include |-> TRUE,
                        matches |-> {"a.md", "b.md", "d.md", "sub/e.md"}]
      [] line = "!a.md" -> [include |-> FALSE, matches |-> {"a.md"}]
      [] line = "sub/" -> [include |-> TRUE, matches |-> {"sub/e.md"}]

\* PathSpec.from_lines, PathSpec.__add__ and PathSpec.match_file: the last
\* pattern that matches the file decides.
from_lines(lines) == [i \in 1..Len(lines) |-> GitWildMatchPattern(lines[i])]

PathSpec_match_file(patterns, p) ==
    LET hits == {i \in 1..Len(patterns) : p \in patterns[i].matches}
    IN IF hits = {} THEN FALSE ELSE patterns[Max(hits)].include

\* self.exclude_spec.match_file(rel_path_str), with the exclude_spec of the
\* walker the indexer built from config.exclude_patterns
match_file(p) == PathSpec_match_file(walker.exclude_spec, p)

FileInfo(p) == [relative_path |-> p, mtime |-> fs[p].mtime, content_hash |-> ""]

ToFileInfos(s) == [i \in 1..Len(s) |-> FileInfo(s[i])]

walk ==
    ToFileInfos(SelectSeq(PathOrder,
        LAMBDA p : fs[p].exists /\ suffix(p) \in include_extensions /\ ~match_file(p)))

\* A find_deleted that resolves every path to one that exists.
find_deleted_none(st) == SelectSeq(PathOrder, LAMBDA p : FALSE)

find_deleted(st) == SelectSeq(PathOrder, LAMBDA p : p \in DOMAIN st /\ ~fs[p].exists)

\* ---------------------------------------------------------- the store
PointsOf(p) == {pt.id : pt \in {q \in collection.points : q.path = p}}

\* A delete that the store acknowledges and does not carry out.
delete_points_none(pts, ids) == pts

delete_points(pts, ids) == {pt \in pts : pt.id \notin Range(ids)}

NewIds(n) == [i \in 1..n |-> nextId + i]

\* The points _index_file builds: one per chunk, each with a fresh uuid4.
BuildPoints(fi, c, ids) ==
    {[id |-> ids[i], path |-> fi.relative_path, content_hash |-> fi.content_hash,
      text |-> c] : i \in 1..Len(ids)}

\* ---------------------------------------------------------------- Init
\* Nothing is indexed yet: no file, no ledger file, no collection.
IndexerInit ==
    /\ fs = [p \in Paths |-> NoFile]
    /\ disk = NoLedgerFile
    /\ collection = NoCollection
    /\ model_dimensions = DefaultDimensions
    /\ state = [loaded |-> FALSE, files |-> EmptyLedger]
    /\ pc = "idle"
    /\ op = ""
    /\ files = NoFiles
    /\ relative_path = ""
    /\ ret = 0
    /\ info = NoInfo
    /\ force = FALSE
    /\ file_infos = <<>>
    /\ file_info = NoFileInfo
    /\ old_chunk_ids = <<>>
    /\ content = 0
    /\ chunk_ids = <<>>
    /\ deleted = <<>>
    /\ result = IndexResult
    /\ nextId = 0
    /\ faults = 0
    /\ edits = 0
    /\ pre = [files |-> EmptyLedger, points |-> {}, disk |-> NoLedgerFile]
    /\ io = NoIo
    /\ prechecked = FALSE
    /\ thrown = <<>>
    /\ prevClean = FALSE

\* No call of IndexState.load alone, none of MarkdownChunker alone.
LoaderUnused == ledger_path = NoDocument /\ load_ret = NoLoad
ChunkerUnused ==
    chunker = NoChunker /\ doc = <<>> /\ chunks = NoChunks /\ overlap = NoOverlap
WalkerUnused ==
    /\ tree = NoTree /\ gitignore = NoIgnoreFile
    /\ walker = NoWalker /\ walked = NoWalk
SearcherUnused ==
    /\ qdrant = NoRemote /\ searcher = NoSearcher /\ sio = NoCalls
PairUnused == runs = [i \in Instances |-> NoRun]

Init ==
    /\ IndexerInit /\ LoaderUnused /\ ChunkerUnused /\ WalkerUnused
    /\ SearcherUnused /\ PairUnused

\* ------------------------------------------------ the world around a call
\* The file tree, the configuration and the process change only between calls.
\* A write stamps the file with a modification time it did not have.
NewMTime(p) == CHOOSE m \in MTimes : m # fs[p].mtime

WriteFile(p, c) ==
    /\ pc = "idle"
    /\ edits < MaxEdits
    /\ ~fs[p].exists \/ fs[p].content # c
    /\ fs' = [fs EXCEPT ![p] = [exists |-> TRUE, content |-> c, mtime |-> NewMTime(p)]]
    /\ edits' = edits + 1
    /\ prevClean' = FALSE
    /\ UNCHANGED <<disk, collection, model_dimensions, state, pc, args, locals,
                   result, nextId, faults, hist, io>>
    /\ UNCHANGED <<loaderVars, chunkerVars, walkerVars, searcherVars, pairVars>>

TouchFile(p) ==
    /\ pc = "idle"
    /\ edits < MaxEdits
    /\ fs[p].exists
    /\ fs' = [fs EXCEPT ![p].mtime = NewMTime(p)]
    /\ edits' = edits + 1
    /\ prevClean' = FALSE
    /\ UNCHANGED <<disk, collection, model_dimensions, state, pc, args, locals,
                   result, nextId, faults, hist, io>>
    /\ UNCHANGED <<loaderVars, chunkerVars, walkerVars, searcherVars, pairVars>>

RemoveFile(p) ==
    /\ pc = "idle"
    /\ edits < MaxEdits
    /\ fs[p].exists
    /\ fs' = [fs EXCEPT ![p] = NoFile]
    /\ edits' = edits + 1
    /\ prevClean' = FALSE
    /\ UNCHANGED <<disk, collection, model_dimensions, state, pc, args, locals,
                   result, nextId, faults, hist, io>>
    /\ UNCHANGED <<loaderVars, chunkerVars, walkerVars, searcherVars, pairVars>>

\* cli.py builds a new VaultIndexer per command: _state is None again.
\* (When the ledger in memory is the ledger on disk, no later step can tell.)
NewIndexer ==
    /\ pc = "idle"
    /\ state.loaded
    /\ state.files # load(disk)
    /\ state' = [loaded |-> FALSE, files |-> EmptyLedger]
    /\ UNCHANGED <<env, disk, collection, pc, args, locals, result, nextId,
                   faults, hist, io, prevClean>>
    /\ UNCHANGED <<loaderVars, chunkerVars, walkerVars, searcherVars, pairVars>>

\* The configured model is changed, and a new indexer reads the new config.
ChangeModel(d) ==
    /\ pc = "idle"
    /\ edits < MaxEdits
    /\ model_dimensions = DefaultDimensions
    /\ d # model_dimensions
    /\ model_dimensions' = d
    /\ edits' = edits + 1
    /\ state' = [loaded |-> FALSE, files |-> EmptyLedger]
    /\ prevClean' = FALSE
    /\ UNCHANGED <<fs, disk, collection, pc, args, locals, result, nextId,
                   faults, hist, io>>
    /\ UNCHANGED <<loaderVars, chunkerVars, walkerVars, searcherVars, pairVars>>

\* ------------------------------------------------------------- index()
\* The uuid4 values a call over the paths s draws when no step raises.
RECURSIVE Needed(_, _)
Needed(s, fo) ==
    IF s = <<>> THEN 0
    ELSE LET p == Head(s)
             h == xxh64(fs[p].content)
         IN (IF /\ fs[p].exists
                /\ (fo \/ p \notin DOMAIN StateFiles \/ StateFiles[p].hash # h)
             THEN ChunkCount(fs[p].content) ELSE 0)
            + Needed(Tail(s), fo)

\* ensure_collection(): creates the collection, with the configured vector
\* size, when its name is not listed; an existing collection is left as it is.
ensure_collection(col) ==
    IF col.exists THEN col
    ELSE [exists |-> TRUE, dim |-> model_dimensions, points |-> {}]

\* Lines 138-150: the explicit list, existence-filtered, or the walk.
WorkingSet(f) ==
    IF Truthy(f)
    THEN ToFileInfos(SelectSeq(f.list, LAMBDA p : fs[p].exists))
    ELSE walk

\* An index() that goes on when the collection pre-check raises.
IndexCall_swallow(f, fo) ==
    /\ pc = "idle"
    /\ nextId + Needed(IF Truthy(f) THEN f.list ELSE PathOrder, fo) <= MaxIds
    /\ op' = "index"
    /\ files' = f
    /\ force' = fo
    /\ result' = IndexResult
    /\ pre' = [files |-> StateFiles, points |-> collection.points, disk |-> disk]
    /\ thrown' = <<>>
    /\ \/ /\ collection' = ensure_collection(collection)
          /\ prechecked' = TRUE
          /\ UNCHANGED faults
       \/ /\ faults < MaxFaults
          /\ faults' = faults + 1
          /\ prechecked' = FALSE
          /\ UNCHANGED collection
    /\ file_infos' = WorkingSet(f)
    /\ io' = [NoIo EXCEPT !.walks = IF Truthy(f) THEN 0 ELSE 1, !.last = "resolve"]
    /\ pc' = "for"
    /\ UNCHANGED <<env, disk, state, relative_path, ret, info, file_info,
                   old_chunk_ids, content, chunk_ids, deleted, nextId, prevClean>>
    /\ UNCHANGED <<loaderVars, chunkerVars, walkerVars, searcherVars, pairVars>>

\* index(files, force), lines 132-152: the result, the collection pre-check
\* (get_collections or create_collection may raise, and then index() raises),
\* the working set.
IndexCall(f, fo) ==
    /\ pc = "idle"
    /\ nextId + Needed(IF Truthy(f) THEN f.list ELSE PathOrder, fo) <= MaxIds
    /\ op' = "index"
    /\ files' = f
    /\ force' = fo
    /\ result' = IndexResult
    /\ pre' = [files |-> StateFiles, points |-> collection.points, disk |-> disk]
    /\ thrown' = <<>>
    /\ \/ /\ collection' = ensure_collection(collection)
          /\ prechecked' = TRUE
          /\ file_infos' = WorkingSet(f)
          /\ io' = [NoIo EXCEPT !.walks = IF Truthy(f) THEN 0 ELSE 1,
                                !.last = "resolve"]
          /\ pc' = "for"
          /\ UNCHANGED faults
       \/ /\ faults < MaxFaults
          /\ faults' = faults + 1
          /\ prechecked' = FALSE
          /\ io' = NoIo
          /\ pc' = "raised"
          /\ UNCHANGED <<collection, file_infos>>
    /\ UNCHANGED <<env, disk, state, relative_path, ret, info, file_info,
                   old_chunk_ids, content, chunk_ids, deleted, nextId, prevClean>>
    /\ UNCHANGED <<loaderVars, chunkerVars, walkerVars, searcherVars, pairVars>>

\* for i, file_info in enumerate(file_infos); after the last file, lines
\* 187-188: if not files: deleted = self.walker.find_deleted(self.state)
ForNext ==
    /\ pc = "for"
    /\ IF file_infos # <<>>
       THEN /\ file_info' = Head(file_infos)
            /\ file_infos' = Tail(file_infos)
            /\ pc' = "compute_hash"
            /\ UNCHANGED <<deleted, state>>
       ELSE /\ file_info' = NoFileInfo
            /\ UNCHANGED file_infos
            /\ IF ~Truthy(files)
               THEN /\ deleted' = find_deleted(StateFiles)
                    /\ state' = [loaded |-> TRUE, files |-> StateFiles]
                    /\ pc' = IF deleted' = <<>> THEN "save" ELSE "purge"
               ELSE /\ pc' = "save"
                    /\ UNCHANGED <<deleted, state>>
    /\ old_chunk_ids' = <<>>
    /\ content' = 0
    /\ chunk_ids' = <<>>
    /\ UNCHANGED <<env, disk, collection, args, result, nextId, faults, hist,
                   io, prevClean>>
    /\ UNCHANGED <<loaderVars, chunkerVars, walkerVars, searcherVars, pairVars>>

\* A handler that swallows the exception without an error entry.
except_Exception_silent(res, fi, e) == res

\* except Exception as e: result.errors.append(f"{relative_path}: {e}")
except_Exception(res, fi, e) ==
    [res EXCEPT !.errors = Append(@, [path |-> fi.relative_path, step |-> e])]

\* A loop body without the try: the exception ends index().
Raises_abort(e) ==
    /\ faults < MaxFaults
    /\ faults' = faults + 1
    /\ thrown' = Append(thrown, [path |-> file_info.relative_path, step |-> e])
    /\ pc' = "raised"
    /\ UNCHANGED result

\* A step of the loop body raises: the handler runs, the loop goes on.
Raises(e) ==
    /\ faults < MaxFaults
    /\ faults' = faults + 1
    /\ result' = except_Exception(result, file_info, e)
    /\ thrown' = Append(thrown, [path |-> file_info.relative_path, step |-> e])
    /\ pc' = "for"

\* Lines 161-170: file_info.compute_hash(); if not force and not
\* self.state.needs_reindex(file_info): skipped, continue; otherwise
\* old_chunk_ids = self.state.remove_file(file_info.relative_path).
ComputeHash ==
    /\ pc = "compute_hash"
    /\ io' = [io EXCEPT !.reads = @ + 1, !.last = "read"]
    /\ \/ /\ fs[file_info.relative_path].exists
          /\ file_info' = [file_info EXCEPT
                 !.content_hash = xxh64(fs[file_info.relative_path].content)]
          /\ IF ~force /\ ~needs_reindex(StateFiles, file_info')
             THEN /\ result' = [result EXCEPT !.files_skipped = @ + 1]
                  /\ state' = [loaded |-> TRUE, files |-> StateFiles]
                  /\ pc' = "for"
                  /\ UNCHANGED old_chunk_ids
             ELSE /\ old_chunk_ids' =
                        remove_file_ids(StateFiles, file_info.relative_path)
                  /\ state' = [loaded |-> TRUE,
                        files |-> remove_file(StateFiles, file_info.relative_path)]
                  /\ pc' = IF old_chunk_ids' # <<>> THEN "delete_chunks"
                           ELSE "read_text"
                  /\ UNCHANGED result
          /\ UNCHANGED <<faults, thrown>>
       \/ /\ Raises("hash")
          /\ UNCHANGED <<file_info, state, old_chunk_ids>>
    /\ UNCHANGED <<env, disk, collection, args, file_infos, content, chunk_ids,
                   deleted, nextId, pre, prechecked, prevClean>>
    /\ UNCHANGED <<loaderVars, chunkerVars, walkerVars, searcherVars, pairVars>>

\* self._delete_chunks(old_chunk_ids); result.chunks_removed += len(...)
DeleteOld ==
    /\ pc = "delete_chunks"
    /\ io' = [io EXCEPT !.deletes = @ + 1, !.last = "delete"]
    /\ \/ /\ collection.exists
          /\ collection' = [collection EXCEPT
                 !.points = delete_points(@, old_chunk_ids)]
          /\ result' = [result EXCEPT !.chunks_removed = @ + Len(old_chunk_ids)]
          /\ pc' = "read_text"
          /\ UNCHANGED <<faults, thrown>>
       \/ /\ Raises("delete")
          /\ UNCHANGED collection
    /\ UNCHANGED <<env, disk, state, args, locals, nextId, pre, prechecked,
                   prevClean>>
    /\ UNCHANGED <<loaderVars, chunkerVars, walkerVars, searcherVars, pairVars>>

\* _index_file, lines 211-217: read_text, chunk, "if not chunks: return []"
ReadText ==
    /\ pc = "read_text"
    /\ io' = [io EXCEPT !.reads = @ + 1, !.last = "read"]
    /\ \/ /\ fs[file_info.relative_path].exists
          /\ content' = fs[file_info.relative_path].content
          /\ pc' = IF ChunkCount(content') = 0 THEN "update_file" ELSE "embed_batch"
          /\ UNCHANGED <<result, faults, thrown>>
       \/ /\ Raises("read")
          /\ UNCHANGED content
    /\ UNCHANGED <<env, disk, collection, state, args, file_infos, file_info,
                   old_chunk_ids, chunk_ids, deleted, nextId, pre, prechecked,
                   prevClean>>
    /\ UNCHANGED <<loaderVars, chunkerVars, walkerVars, searcherVars, pairVars>>

\* embeddings = self.embedder.embed_batch(texts): one batch per file
EmbedBatch ==
    /\ pc = "embed_batch"
    /\ io' = [io EXCEPT !.embeds = @ + 1, !.last = "embed"]
    /\ \/ /\ pc' = "upsert"
          /\ UNCHANGED <<result, faults, thrown>>
       \/ Raises("embed")
    /\ UNCHANGED <<env, disk, collection, state, args, locals, nextId, pre,
                   prechecked, prevClean>>
    /\ UNCHANGED <<loaderVars, chunkerVars, walkerVars, searcherVars, pairVars>>

\* Lines 224-251: a uuid4 per chunk, then one client.upsert call.  Qdrant
\* rejects vectors whose size is not the collection's.
Upsert ==
    /\ pc = "upsert"
    /\ io' = [io EXCEPT !.upserts = @ + 1, !.last = "upsert"]
    /\ nextId' = nextId + ChunkCount(content)
    /\ \/ /\ collection.exists /\ collection.dim = model_dimensions
          /\ chunk_ids' = NewIds(ChunkCount(content))
          /\ collection' = [collection EXCEPT
                 !.points = @ \cup BuildPoints(file_info, content, chunk_ids')]
          /\ pc' = "update_file"
          /\ UNCHANGED <<result, faults, thrown>>
       \/ /\ collection.exists /\ collection.dim = model_dimensions
          /\ Raises("upsert")
          /\ UNCHANGED <<collection, chunk_ids>>
       \/ /\ ~(collection.exists /\ collection.dim = model_dimensions)
          /\ result' = except_Exception(result, file_info, "upsert")
          /\ thrown' = Append(thrown,
                 [path |-> file_info.relative_path, step |-> "upsert"])
          /\ pc' = "for"
          /\ UNCHANGED <<collection, chunk_ids, faults>>
    /\ UNCHANGED <<env, disk, state, args, file_infos, file_info, old_chunk_ids,
                   content, deleted, pre, prechecked, prevClean>>
    /\ UNCHANGED <<loaderVars, chunkerVars, walkerVars, searcherVars, pairVars>>

\* self.state.update_file(file_info, chunk_ids); the two tallies
UpdateFile ==
    /\ pc = "update_file"
    /\ state' = [loaded |-> TRUE,
                 files |-> update_file(StateFiles, file_info, chunk_ids)]
    /\ result' = [result EXCEPT !.files_processed = @ + 1,
                                !.chunks_added = @ + Len(chunk_ids)]
    /\ pc' = "for"
    /\ UNCHANGED <<env, disk, collection, args, locals, nextId, faults, hist,
                   io, prevClean>>
    /\ UNCHANGED <<loaderVars, chunkerVars, walkerVars, searcherVars, pairVars>>

\* Lines 189-194, for rel_path in deleted: remove_file, _delete_chunks,
\* files_deleted += 1.  The loop is outside the try: a delete that raises
\* ends index().
PurgeDeleted ==
    /\ pc = "purge"
    /\ deleted # <<>>
    /\ LET rel_path == Head(deleted)
           ids == remove_file_ids(StateFiles, rel_path)
       IN /\ state' = [loaded |-> TRUE, files |-> remove_file(StateFiles, rel_path)]
          /\ \/ /\ ids = <<>>
                /\ result' = [result EXCEPT !.files_deleted = @ + 1]
                /\ deleted' = Tail(deleted)
                /\ pc' = IF deleted' = <<>> THEN "save" ELSE "purge"
                /\ UNCHANGED <<collection, faults, io>>
             \/ /\ ids # <<>>
                /\ collection.exists
                /\ collection' = [collection EXCEPT !.points = delete_points(@, ids)]
                /\ result' = [result EXCEPT !.files_deleted = @ + 1,
                                            !.chunks_removed = @ + Len(ids)]
                /\ deleted' = Tail(deleted)
                /\ pc' = IF deleted' = <<>> THEN "save" ELSE "purge"
                /\ io' = [io EXCEPT !.deletes = @ + 1, !.last = "delete"]
                /\ UNCHANGED faults
             \/ /\ ids # <<>>
                /\ faults < MaxFaults
                /\ faults' = faults + 1
                /\ io' = [io EXCEPT !.deletes = @ + 1, !.last = "delete"]
                /\ pc' = "raised"
                /\ UNCHANGED <<collection, result, deleted>>
    /\ UNCHANGED <<env, disk, args, file_infos, file_info, old_chunk_ids, content,
                   chunk_ids, nextId, hist, prevClean>>
    /\ UNCHANGED <<loaderVars, chunkerVars, walkerVars, searcherVars, pairVars>>

\* self.state.save(self.config.state_path); return result
SaveState ==
    /\ pc = "save"
    /\ disk' = save(StateFiles)
    /\ state' = [loaded |-> TRUE, files |-> StateFiles]
    /\ io' = [io EXCEPT !.saves = @ + 1, !.last = "save"]
    /\ pc' = "returned"
    /\ UNCHANGED <<env, collection, args, locals, result, nextId, faults, hist,
                   prevClean>>
    /\ UNCHANGED <<loaderVars, chunkerVars, walkerVars, searcherVars, pairVars>>

\* ---------------------------------------------------------- delete_file()
DeleteFile(p) ==
    /\ pc = "idle"
    /\ op' = "delete_file"
    /\ relative_path' = p
    /\ pre' = [files |-> StateFiles, points |-> collection.points, disk |-> disk]
    /\ LET ids == remove_file_ids(StateFiles, p)
           st == remove_file(StateFiles, p)
       IN /\ state' = [loaded |-> TRUE, files |-> st]
          /\ \/ /\ ids = <<>>
                /\ ret' = 0
                /\ pc' = "returned"
                /\ io' = NoIo
                /\ UNCHANGED <<collection, disk, faults>>
             \/ /\ ids # <<>>
                /\ collection.exists
                /\ collection' = [collection EXCEPT !.points = delete_points(@, ids)]
                /\ disk' = save(st)
                /\ ret' = Len(ids)
                /\ pc' = "returned"
                /\ io' = [NoIo EXCEPT !.deletes = 1, !.saves = 1, !.last = "save"]
                /\ UNCHANGED faults
             \/ /\ ids # <<>>
                /\ faults < MaxFaults
                /\ faults' = faults + 1
                /\ pc' = "raised"
                /\ io' = [NoIo EXCEPT !.deletes = 1, !.last = "delete"]
                /\ UNCHANGED <<collection, disk, ret>>
    /\ prevClean' = FALSE
    /\ UNCHANGED <<env, files, force, info, locals, result, nextId, prechecked, thrown>>
    /\ UNCHANGED <<loaderVars, chunkerVars, walkerVars, searcherVars, pairVars>>

\* ---------------------------------------------------------------- clear()
\* delete_collection may raise; the exception is swallowed.
Clear ==
    /\ pc = "idle"
    /\ op' = "clear"
    /\ pre' = [files |-> StateFiles, points |-> collection.points, disk |-> disk]
    /\ \/ /\ collection' = NoCollection
          /\ UNCHANGED faults
       \/ /\ collection.exists
          /\ faults < MaxFaults
          /\ faults' = faults + 1
          /\ UNCHANGED collection
    /\ state' = [loaded |-> TRUE, files |-> EmptyLedger]
    /\ disk' = save(EmptyLedger)
    /\ io' = [NoIo EXCEPT !.saves = 1, !.last = "save"]
    /\ pc' = "returned"
    /\ prevClean' = FALSE
    /\ UNCHANGED <<env, files, force, relative_path, ret, info, locals, result, nextId,
                   prechecked, thrown>>
    /\ UNCHANGED <<loaderVars, chunkerVars, walkerVars, searcherVars, pairVars>>

\* --------------------------------------------------------------- status()
\* A status() that writes the ledger it has loaded back to the ledger file.
Status_saves ==
    /\ pc = "idle"
    /\ op' = "status"
    /\ pre' = [files |-> StateFiles, points |-> collection.points, disk |-> disk]
    /\ \E answered \in {collection.exists, FALSE} :
        info' = [indexed_files |-> Cardinality(DOMAIN StateFiles),
                 total_chunks |-> IF answered THEN Cardinality(collection.points) ELSE 0]
    /\ state' = [loaded |-> TRUE, files |-> StateFiles]
    /\ disk' = save(StateFiles)
    /\ io' = [NoIo EXCEPT !.saves = 1, !.last = "save"]
    /\ pc' = "returned"
    /\ UNCHANGED <<env, collection, files, force, relative_path, ret, locals,
                   result, nextId, faults, prechecked, thrown, prevClean>>
    /\ UNCHANGED <<loaderVars, chunkerVars, walkerVars, searcherVars, pairVars>>

\* get_collection raises when the collection is missing and may raise when it
\* is there; either way the counts are 0 and status() returns.  The other
\* keys of the dict are configuration values and the ledger's timestamp.
Status ==
    /\ pc = "idle"
    /\ op' = "status"
    /\ pre' = [files |-> StateFiles, points |-> collection.points, disk |-> disk]
    /\ \E answered \in {collection.exists, FALSE} :
        info' = [indexed_files |-> Cardinality(DOMAIN StateFiles),
                 total_chunks |-> IF answered THEN Cardinality(collection.points) ELSE 0]
    /\ state' = [loaded |-> TRUE, files |-> StateFiles]
    /\ io' = NoIo
    /\ pc' = "returned"
    /\ UNCHANGED <<env, disk, collection, files, force, relative_path, ret, locals,
                   result, nextId, faults, prechecked, thrown, prevClean>>
    /\ UNCHANGED <<loaderVars, chunkerVars, walkerVars, searcherVars, pairVars>>

\* The call has ended: the caller has the result or the exception.
Return ==
    /\ pc \in {"returned", "raised"}
    /\ pc' = "idle"
    /\ prevClean' = IF op = "index"
                    THEN pc = "returned" /\ files.none /\ result.errors = <<>>
                    ELSE prevClean
    /\ op' = ""
    /\ files' = NoFiles
    /\ force' = FALSE
    /\ relative_path' = ""
    /\ ret' = 0
    /\ info' = NoInfo
    /\ file_infos' = <<>>
    /\ file_info' = NoFileInfo
    /\ old_chunk_ids' = <<>>
    /\ content' = 0
    /\ chunk_ids' = <<>>
    /\ deleted' = <<>>
    /\ result' = IndexResult
    /\ pre' = [files |-> EmptyLedger, points |-> {}, disk |-> NoLedgerFile]
    /\ io' = NoIo
    /\ prechecked' = FALSE
    /\ thrown' = <<>>
    /\ UNCHANGED <<env, disk, collection, state, nextId, faults>>
    /\ UNCHANGED <<loaderVars, chunkerVars, walkerVars, searcherVars, pairVars>>

\* ---------------------------------------------------------------- Next
\* The calls made: a full index, forced or not, and every duplicate-free
\* explicit list in path order, unforced.
FileLists == {<<>>, <<"a.md">>, <<"b.md">>, <<"a.md", "b.md">>}
Calls ==
    {<<NoFiles, fo>> : fo \in BOOLEAN}
    \cup {<<[none |-> FALSE, list |-> l], FALSE>> : l \in FileLists}

Next ==
    \/ \E p \in Paths, c \in Contents : WriteFile(p, c)
    \/ \E p \in Paths : TouchFile(p)
    \/ \E p \in Paths : RemoveFile(p)
    \/ NewIndexer
    \/ \E d \in Dimensions : ChangeModel(d)
    \/ \E c \in Calls : IndexCall(c[1], c[2])
    \/ ForNext
    \/ ComputeHash
    \/ DeleteOld
    \/ ReadText
    \/ EmbedBatch
    \/ Upsert
    \/ UpdateFile
    \/ PurgeDeleted
    \/ SaveState
    \/ \E p \in Paths : DeleteFile(p)
    \/ Clear
    \/ Status
    \/ Return

Spec == Init /\ [][Next]_vars

\* ------------------------------------------------- index() interrupted
\* The process is killed while index() runs, at any point before
\* self.state.save: what the run did to the collection stays, the ledger in
\* memory is lost with the process, the ledger file is as the last save left
\* it.  The next call is made by a new process.
Interrupt ==
    /\ op = "index"
    /\ pc \in {"for", "compute_hash", "delete_chunks", "read_text",
               "embed_batch", "upsert", "update_file", "purge", "save"}
    /\ faults < MaxFaults
    /\ faults' = faults + 1
    /\ state' = [loaded |-> FALSE, files |-> EmptyLedger]
    /\ pc' = "idle"
    /\ prevClean' = FALSE
    /\ op' = ""
    /\ files' = NoFiles
    /\ force' = FALSE
    /\ file_infos' = <<>>
    /\ file_info' = NoFileInfo
    /\ old_chunk_ids' = <<>>
    /\ content' = 0
    /\ chunk_ids' = <<>>
    /\ deleted' = <<>>
    /\ result' = IndexResult
    /\ pre' = [files |-> EmptyLedger, points |-> {}, disk |-> NoLedgerFile]
    /\ io' = NoIo
    /\ prechecked' = FALSE
    /\ thrown' = <<>>
    /\ UNCHANGED <<env, disk, collection, relative_path, ret, info, nextId>>
    /\ UNCHANGED <<loaderVars, chunkerVars, walkerVars, searcherVars, pairVars>>

\* Runs in which no call raises and the only failure is the kill: faults
\* counts the kills.
NextInterrupt ==
    \/ Next /\ faults' = faults
    \/ Interrupt

SpecInterrupt == Init /\ [][NextInterrupt]_vars

\* ------------------------------------------- a file written during index()
\* The paths of the working-set entries not yet visited.
RestPaths == [i \in 1..Len(file_infos) |-> file_infos[i].relative_path]

\* Someone rewrites the file in hand after file_info.compute_hash() has read
\* it (line 161) and before _index_file reads it again (line 211).
WriteDuring(c) ==
    /\ op = "index"
    /\ pc \in {"delete_chunks", "read_text"}
    /\ edits < MaxEdits
    /\ LET p == file_info.relative_path
       IN /\ fs[p].exists
          /\ fs[p].content # c
          /\ nextId + ChunkCount(c) + Needed(RestPaths, force) <= MaxIds
          /\ fs' = [fs EXCEPT ![p] = [exists |-> TRUE, content |-> c,
                                      mtime |-> NewMTime(p)]]
    /\ edits' = edits + 1
    /\ prevClean' = FALSE
    /\ UNCHANGED <<disk, collection, model_dimensions, state, pc, args, locals,
                   result, nextId, faults, hist, io>>
    /\ UNCHANGED <<loaderVars, chunkerVars, walkerVars, searcherVars, pairVars>>

\* Runs in which no call raises and the tree is also written during a run.
NextEdit ==
    \/ Next /\ faults' = faults
    \/ \E c \in Contents : WriteDuring(c)

SpecEdit == Init /\ [][NextEdit]_vars

TypeOK ==
    /\ pc \in {"idle", "for", "compute_hash", "delete_chunks", "read_text",
               "embed_batch", "upsert", "update_file", "purge", "save",
               "returned", "raised"}
    /\ nextId \in 0..MaxIds
    /\ faults \in 0..MaxFaults
    /\ DOMAIN StateFiles \subseteq Paths

\* ==================================================================
\* IndexState.load alone (walker.py), over every kind of file at the path
\* ==================================================================
\* What the file at the ledger path can hold: bytes that do not decode, text
\* that is not JSON, a JSON value that is no object, an object without a
\* "files" key or with one that is no object, and an object whose "files" is
\* a ledger, as save() writes it.
LedgerEntries ==
    [hash : {xxh64(0), xxh64(1)}, mtime : MTimes, chunk_ids : {<<>>, <<1>>}]
Ledgers == UNION {[S -> LedgerEntries] : S \in SUBSET Paths}
NotObjects == {"array", "string", "number", "null"}
Documents ==
    {[exists |-> TRUE, kind |-> k, files_kind |-> "", files |-> EmptyLedger] :
        k \in {"undecodable", "not_json"} \cup NotObjects}
    \cup {[exists |-> TRUE, kind |-> "object", files_kind |-> fk, files |-> EmptyLedger] :
        fk \in {"absent", "array", "null"}}
    \cup {[exists |-> TRUE, kind |-> "object", files_kind |-> "object", files |-> l] :
        l \in Ledgers}

\* The document json.dumps writes for a ledger file of the indexer.
AsDocument(d) ==
    IF d.exists
    THEN [exists |-> TRUE, kind |-> "object", files_kind |-> "object", files |-> d.files]
    ELSE NoDocument

Returns(fk, l) == [called |-> TRUE, raised |-> "", files_kind |-> fk, files |-> l]
RaisesOut(e) == [called |-> TRUE, raised |-> e, files_kind |-> "", files |-> EmptyLedger]

\* IndexState.load: path.exists(), then json.loads(path.read_text()) and
\* data.get(...) inside try ... except (json.JSONDecodeError, KeyError).
IndexState_load(f) ==
    IF ~f.exists THEN Returns("object", EmptyLedger)
    ELSE CASE f.kind = "undecodable" -> RaisesOut("UnicodeDecodeError")
           [] f.kind = "not_json" -> Returns("object", EmptyLedger)
           [] f.kind \in NotObjects -> RaisesOut("AttributeError")
           [] f.kind = "object" ->
                IF f.files_kind = "absent" THEN Returns("object", EmptyLedger)
                ELSE Returns(f.files_kind, f.files)

LoaderInit ==
    /\ IndexerInit /\ ChunkerUnused /\ WalkerUnused /\ SearcherUnused /\ PairUnused
    /\ ledger_path = NoDocument
    /\ load_ret = NoLoad

\* Something writes the file: the indexer's save(), an interrupted write, an
\* editor, another program.
WriteLedgerFile(d) ==
    /\ d # ledger_path
    /\ ledger_path' = d
    /\ load_ret' = NoLoad
    /\ UNCHANGED <<indexerVars, chunkerVars, walkerVars, searcherVars, pairVars>>

RemoveLedgerFile ==
    /\ ledger_path.exists
    /\ ledger_path' = NoDocument
    /\ load_ret' = NoLoad
    /\ UNCHANGED <<indexerVars, chunkerVars, walkerVars, searcherVars, pairVars>>

Load ==
    /\ ~load_ret.called
    /\ load_ret' = IndexState_load(ledger_path)
    /\ UNCHANGED <<ledger_path, indexerVars, chunkerVars, walkerVars, searcherVars,
                 pairVars>>

LoaderNext ==
    \/ \E d \in Documents : WriteLedgerFile(d)
    \/ RemoveLedgerFile
    \/ Load

SpecLoader == LoaderInit /\ [][LoaderNext]_vars

\* ==================================================================
\* MarkdownChunker alone (chunker.py)
\* ==================================================================
\* A str is a sequence of places: place p > 0 is the p-th character of the
\* content given to chunk(), place 0 is a "\n" the chunker itself appended
\* (line + '\n').  The characters of a str are Text(s); the places tell, for
\* every character of an emitted Chunk, where in the content it came from.
Ch(p) == IF p = 0 THEN "\n" ELSE doc[p]
Text(s) == [i \in 1..Len(s) |-> Ch(s[i])]
Places(d) == [i \in 1..Len(d) |-> i]
NL == <<0>>


\* str.strip() and the regex class \s
isspace(p) == Ch(p) \in {" ", "\n"}

strip(s) ==
    LET inked == {i \in 1..Len(s) : ~isspace(s[i])}
    IN IF inked = {} THEN <<>> ELSE SubSeq(s, Min(inked), Max(inked))

\* s.split('\n')
RECURSIVE split(_)
split(s) ==
    LET nl == {i \in 1..Len(s) : Ch(s[i]) = "\n"}
    IN IF nl = {} THEN <<s>>
       ELSE <<SubSeq(s, 1, Min(nl) - 1)>> \o split(SubSeq(s, Min(nl) + 1, Len(s)))

\* s.count('\n')
count(s) == Cardinality({i \in 1..Len(s) : Ch(s[i]) = "\n"})

\* s.startswith(t) and s.find(t), t a sequence of characters; find is 1-based
\* here, and 0 where Python gives -1
startswith(s, t) == Len(s) >= Len(t) /\ \A i \in 1..Len(t) : Ch(s[i]) = t[i]

find(s, t) ==
    LET at == {i \in 1..(Len(s) - Len(t) + 1) : \A k \in 1..Len(t) : Ch(s[i + k - 1]) = t[k]}
    IN IF at = {} THEN 0 ELSE Min(at)

\* HEADING_PATTERN.match(line), ^(#{1,6})\s+(.+)$ on a line without "\n":
\* one to six "#", then whitespace, then at least one more character.
hashes(line) ==
    IF \A i \in 1..Len(line) : Ch(line[i]) = "#" THEN Len(line)
    ELSE Min({i \in 1..Len(line) : Ch(line[i]) # "#"}) - 1

heading_match(line) ==
    /\ hashes(line) \in 1..6
    /\ Len(line) >= hashes(line) + 2
    /\ isspace(line[hashes(line) + 1])

\* heading_match.group(2).strip()
group2(line) == strip(SubSeq(line, hashes(line) + 1, Len(line)))

\* FRONTMATTER_PATTERN.match(content), ^---\s*\n.*?\n---\s*\n with DOTALL:
\* "---", whitespace up to a "\n" at i, anything, "\n---" at j, whitespace up
\* to a "\n" at k.  The first \s* is greedy (the last i that leads to a
\* match), .*? is lazy (the first j), the last \s* is greedy (the last k).
fm_i(s) ==
    {i \in 4..Len(s) : Ch(s[i]) = "\n" /\ \A x \in 4..(i - 1) : isspace(s[x])}
fm_k(s, j) ==
    {k \in (j + 4)..Len(s) : Ch(s[k]) = "\n" /\ \A x \in (j + 4)..(k - 1) : isspace(s[x])}
fm_j(s, i) ==
    {j \in (i + 1)..(Len(s) - 3) :
        /\ Ch(s[j]) = "\n"
        /\ \A x \in 1..3 : Ch(s[j + x]) = "-"
        /\ fm_k(s, j) # {}}
fm_end(s) ==
    LET is == {i \in fm_i(s) : fm_j(s, i) # {}}
    IN IF ~startswith(s, <<"-", "-", "-">>) \/ is = {} THEN 0
       ELSE Max(fm_k(s, Min(fm_j(s, Max(is)))))

_strip_frontmatter(s) == SubSeq(s, fm_end(s) + 1, Len(s))

\* _split_by_headings: a heading is None or the stripped title
None == [some |-> FALSE, title |-> <<>>]
Some(t) == [some |-> TRUE, title |-> Text(t)]

save_section(sections, current_section) ==
    IF strip(current_section.text) # <<>> THEN Append(sections, current_section)
    ELSE sections

RECURSIVE by_headings(_, _, _, _)
by_headings(lines, i, current_section, sections) ==
    IF i > Len(lines) THEN save_section(sections, current_section)
    ELSE IF heading_match(lines[i])
         THEN by_headings(lines, i + 1,
                          [heading |-> Some(group2(lines[i])),
                           text |-> lines[i] \o NL,
                           line_start |-> i],
                          save_section(sections, current_section))
         ELSE by_headings(lines, i + 1,
                          [current_section EXCEPT !.text = @ \o lines[i] \o NL],
                          sections)

_split_by_headings(s) ==
    by_headings(split(s), 1, [heading |-> None, text |-> <<>>, line_start |-> 1], <<>>)

\* _split_paragraphs
backtick == "U+0060"      \* the character a string of this language cannot hold
Fence == <<backtick, backtick, backtick>>

RECURSIVE paragraphs_loop(_, _, _, _, _)
paragraphs_loop(lines, i, current, in_code_block, paragraphs) ==
    LET saved == IF strip(current) # <<>> THEN Append(paragraphs, current)
                 ELSE paragraphs
    IN IF i > Len(lines) THEN saved
       ELSE IF startswith(lines[i], Fence)
            THEN paragraphs_loop(lines, i + 1, current \o lines[i] \o NL,
                                 ~in_code_block, paragraphs)
       ELSE IF ~in_code_block /\ strip(lines[i]) = <<>>
            THEN paragraphs_loop(lines, i + 1, <<>>, in_code_block, saved)
       ELSE paragraphs_loop(lines, i + 1, current \o lines[i] \o NL,
                            in_code_block, paragraphs)

_split_paragraphs(text) == paragraphs_loop(split(text), 1, <<>>, FALSE, <<>>)

\* _get_overlap; text[-0:] is the whole text
Seps == << <<".", " ">>, <<".", "\n">>, <<"\n", "\n">>, <<"\n">> >>

_get_overlap(text) ==
    IF Len(text) <= chunker.chunk_overlap THEN text
    ELSE LET overlap_region ==
                 IF chunker.chunk_overlap = 0 THEN text
                 ELSE SubSeq(text, Len(text) - chunker.chunk_overlap + 1, Len(text))
             found == {n \in 1..Len(Seps) : find(overlap_region, Seps[n]) # 0}
         IN IF found = {} THEN overlap_region
            ELSE SubSeq(overlap_region,
                        find(overlap_region, Seps[Min(found)]) + Len(Seps[Min(found)]),
                        Len(overlap_region))

\* A new chunk that starts with the paragraph alone.
seed_para(overlap_text, para) == para

\* _split_section, line 163: the new chunk starts with the overlap
seed(overlap_text, para) == overlap_text \o para

\* _split_section: the dicts it yields
RECURSIVE section_loop(_, _, _, _, _, _)
section_loop(paragraphs, i, current_chunk, current_start, current_line, out) ==
    IF i > Len(paragraphs)
    THEN IF strip(current_chunk) # <<>>
         THEN Append(out, [text |-> current_chunk, line_start |-> current_start,
                           line_end |-> current_line])
         ELSE out
    ELSE LET para == paragraphs[i]
             para_lines == count(para) + 1
             overlap_text == _get_overlap(current_chunk)
         IN IF Len(current_chunk) + Len(para) <= chunker.chunk_size
            THEN section_loop(paragraphs, i + 1, current_chunk \o para, current_start,
                              current_line + para_lines, out)
            ELSE section_loop(paragraphs, i + 1, seed(overlap_text, para),
                              current_line - count(overlap_text),
                              current_line + para_lines,
                              IF strip(current_chunk) # <<>>
                              THEN Append(out, [text |-> current_chunk,
                                                line_start |-> current_start,
                                                line_end |-> current_line - 1])
                              ELSE out)

_split_section(text, start_line) ==
    IF Len(text) <= chunker.chunk_size
    THEN <<[text |-> text, line_start |-> start_line,
            line_end |-> start_line + Len(split(text)) - 1]>>
    ELSE section_loop(_split_paragraphs(text), 1, <<>>, start_line, start_line, <<>>)

\* A test on the length of the text before it is stripped.
emits_unstripped(sub_chunk) == Len(sub_chunk.text) >= chunker.min_chunk_size

\* A chunk() without the test.
emits_all(sub_chunk) == TRUE

\* chunk(): the test of line 71 ...
emits(sub_chunk) == Len(strip(sub_chunk.text)) >= chunker.min_chunk_size

\* A Chunk built without its heading: the field keeps its default.
Chunk_noheading(text, heading, line_start, line_end, chunk_index) ==
    [text |-> Text(text), heading |-> None, line_start |-> line_start,
     line_end |-> line_end, chunk_index |-> chunk_index, src |-> text]

\* ... and the Chunk of lines 72-78; src keeps the places of its text.
Chunk(text, heading, line_start, line_end, chunk_index) ==
    [text |-> Text(text), heading |-> heading, line_start |-> line_start,
     line_end |-> line_end, chunk_index |-> chunk_index, src |-> text]

\* A chunk() that counts the sub_chunks it discards too.
RECURSIVE chunk_loop_counts_all(_, _, _, _, _)
chunk_loop_counts_all(sections, n, k, chunk_index, out) ==
    IF n > Len(sections) THEN out
    ELSE LET sub_chunks == _split_section(sections[n].text, sections[n].line_start)
         IN IF k > Len(sub_chunks)
            THEN chunk_loop_counts_all(sections, n + 1, 1, chunk_index, out)
            ELSE chunk_loop_counts_all(sections, n, k + 1, chunk_index + 1,
                    IF emits(sub_chunks[k])
                    THEN Append(out,
                                Chunk(strip(sub_chunks[k].text), sections[n].heading,
                                      sub_chunks[k].line_start, sub_chunks[k].line_end,
                                      chunk_index)
                                @@ [section |-> n, part |-> k])
                    ELSE out)

\* The Chunks chunk() yields, each with the number of its section and of the
\* sub_chunk of that section it was made from.
RECURSIVE chunk_loop(_, _, _, _, _)
chunk_loop(sections, n, k, chunk_index, out) ==
    IF n > Len(sections) THEN out
    ELSE LET sub_chunks == _split_section(sections[n].text, sections[n].line_start)
         IN IF k > Len(sub_chunks) THEN chunk_loop(sections, n + 1, 1, chunk_index, out)
            ELSE IF emits(sub_chunks[k])
                 THEN chunk_loop(sections, n, k + 1, chunk_index + 1,
                        Append(out,
                               Chunk(strip(sub_chunks[k].text), sections[n].heading,
                                     sub_chunks[k].line_start, sub_chunks[k].line_end,
                                     chunk_index)
                               @@ [section |-> n, part |-> k]))
                 ELSE chunk_loop(sections, n, k + 1, chunk_index, out)

chunk(s) == chunk_loop(_split_by_headings(_strip_frontmatter(s)), 1, 1, 0, <<>>)

\* ------------------------------------------------------- the calls made
\* The content is up to MaxLines lines, each one of these:
Lines ==
    { <<"#", " ", "h">>,             \* a heading
      <<"#", " ", "g">>,             \* another heading
      <<"a", "b">>,                  \* text
      <<>>,                          \* a blank line
      Fence,                         \* a fence marker
      <<" ", "c">>,                  \* indented text
      <<"a", ".">>,                  \* the end of a sentence
      <<"-", "-", "-">> }            \* a metadata delimiter

RECURSIVE join(_)
join(ls) == IF Len(ls) = 1 THEN ls[1] ELSE ls[1] \o <<"\n">> \o join(Tail(ls))

MarkdownDocs == {join(ls) : ls \in UNION {[1..n -> Lines] : n \in 1..MaxLines}}

\* chunk_size, chunk_overlap and min_chunk_size, scaled to these contents
Configs ==
    { [chunk_size |-> 6, chunk_overlap |-> 4, min_chunk_size |-> 3],
      [chunk_size |-> 5, chunk_overlap |-> 4, min_chunk_size |-> 2] }

ChunkerInit ==
    /\ IndexerInit /\ LoaderUnused /\ WalkerUnused /\ SearcherUnused /\ PairUnused
    /\ chunker \in Configs
    /\ doc \in MarkdownDocs
    /\ chunks = NoChunks
    /\ overlap = NoOverlap

ChunkCall ==
    /\ ~chunks.yielded
    /\ chunks' = [yielded |-> TRUE, list |-> chunk(Places(doc))]
    /\ UNCHANGED <<chunker, doc, overlap, indexerVars, loaderVars, walkerVars, searcherVars,
                 pairVars>>

ChunkerNext == ChunkCall

SpecChunker == ChunkerInit /\ [][ChunkerNext]_vars

\* ==================================================================
\* MarkdownChunker._get_overlap alone
\* ==================================================================
\* The buffer is any text of up to MaxText of these characters.
TextChars == {"a", ".", " ", "\n"}
Texts == UNION {[1..n -> TextChars] : n \in 0..MaxText}

\* chunk_overlap as configured; chunk_size and min_chunk_size play no part
OverlapConfigs ==
    {[chunk_size |-> 6, chunk_overlap |-> o, min_chunk_size |-> 3] : o \in {0, 2, 3}}

OverlapInit ==
    /\ IndexerInit /\ LoaderUnused /\ WalkerUnused /\ SearcherUnused /\ PairUnused
    /\ chunker \in OverlapConfigs
    /\ doc \in Texts
    /\ chunks = NoChunks
    /\ overlap = NoOverlap

GetOverlapCall ==
    /\ ~overlap.returned
    /\ overlap' = [returned |-> TRUE, text |-> _get_overlap(Places(doc))]
    /\ UNCHANGED <<chunker, doc, chunks, indexerVars, loaderVars, walkerVars, searcherVars,
                 pairVars>>

OverlapNext == GetOverlapCall

SpecOverlap == OverlapInit /\ [][OverlapNext]_vars

\* ==================================================================
\* VaultWalker alone: the constructor and walk()
\* ==================================================================
\* What can be under vault_path, in the order rglob("*") visits it.  "d.md"
\* is a directory when it is there, the others are regular files.
WalkOrder == <<"B.MD", "a.md", "c.txt", "d.md", "sub/e.md">>
Trees ==
    {t \in [Range(WalkOrder) -> {"absent", "file", "dir"}] :
        \A p \in Range(WalkOrder) : (t[p] = "dir") <=> (p = "d.md" /\ t[p] # "absent")}

\* Path.is_file()
is_file(p) == tree[p] = "file"

\* str.lower() on the extensions in use
lower(e) == IF e = ".MD" THEN ".md" ELSE e

\* VaultWalker.__init__
VaultWalker(exts, patterns) ==
    [made |-> TRUE,
     include_extensions |-> {lower(e) : e \in exts},
     exclude_patterns |-> patterns,
     exclude_spec |-> IF gitignore.exists
                      THEN from_lines(patterns) \o from_lines(gitignore.lines)
                      ELSE from_lines(patterns)]

\* VaultWalker.walk: the paths of the FileInfos it yields, in order
VaultWalker_walk ==
    SelectSeq(WalkOrder,
        LAMBDA p : /\ is_file(p)
                   /\ lower(suffix(p)) \in walker.include_extensions
                   /\ ~PathSpec_match_file(walker.exclude_spec, p))

\* FileInfo(path, relative_path, mtime, size): content_hash keeps its default
Yielded(p) == [relative_path |-> p, content_hash |-> ""]

\* ------------------------------------------------------- the calls made
ExtensionLists == {{".md"}, {".MD"}, {".md", ".txt"}}
ExcludeLists == {<<>>, <<"*.md">>, <<"sub/">>, <<"*.md", "!a.md">>}
IgnoreFiles == {<<>>, <<"!a.md">>, <<"sub/">>, <<"*.md">>, <<"*.md", "!a.md">>}

WalkerInit ==
    /\ IndexerInit /\ LoaderUnused /\ ChunkerUnused /\ SearcherUnused /\ PairUnused
    /\ tree \in Trees
    /\ gitignore = NoIgnoreFile
    /\ walker = NoWalker
    /\ walked = NoWalk

\* Somebody edits or removes vault_path/.gitignore.
WriteIgnore(lines) ==
    /\ ~walked.yielded
    /\ gitignore' = [exists |-> TRUE, lines |-> lines]
    /\ UNCHANGED <<tree, walker, walked, indexerVars, loaderVars, chunkerVars,
                 searcherVars, pairVars>>

RemoveIgnore ==
    /\ ~walked.yielded
    /\ gitignore.exists
    /\ gitignore' = NoIgnoreFile
    /\ UNCHANGED <<tree, walker, walked, indexerVars, loaderVars, chunkerVars,
                 searcherVars, pairVars>>

NewWalker(exts, patterns) ==
    /\ walker' = VaultWalker(exts, patterns)
    /\ walked' = NoWalk
    /\ UNCHANGED <<tree, gitignore, indexerVars, loaderVars, chunkerVars,
                 searcherVars, pairVars>>

Walk ==
    /\ walker.made
    /\ ~walked.yielded
    /\ walked' = [yielded |-> TRUE,
                  list |-> [i \in 1..Len(VaultWalker_walk) |-> Yielded(VaultWalker_walk[i])]]
    /\ UNCHANGED <<tree, gitignore, walker, indexerVars, loaderVars, chunkerVars,
                 searcherVars, pairVars>>

WalkerNext ==
    \/ \E lines \in IgnoreFiles : WriteIgnore(lines)
    \/ RemoveIgnore
    \/ \E exts \in ExtensionLists, patterns \in ExcludeLists : NewWalker(exts, patterns)
    \/ Walk

SpecWalker == WalkerInit /\ [][WalkerNext]_vars

\* ------------------------------------- the indexer with an exclusion
\* config.exclude_patterns excludes every .md file but a.md: the indexer's
\* walker (indexer.py 84-92) does not enumerate b.md.
ConfigExcludePatterns == <<"*.md", "!a.md">>

ExcludedInit ==
    /\ IndexerInit /\ LoaderUnused /\ ChunkerUnused /\ SearcherUnused /\ PairUnused
    /\ tree = NoTree
    /\ gitignore = NoIgnoreFile
    /\ walker = VaultWalker(include_extensions, ConfigExcludePatterns)
    /\ walked = NoWalk

SpecExcluded == ExcludedInit /\ [][Next]_vars

\* ==================================================================
\* Two indexers at once (indexer.py): two VaultIndexer instances, each in
\* its own process, run a full index() over the same vault, ledger file and
\* collection.  Each instance loads the ledger file on first use of
\* self.state and keeps its own copy; nothing in the code locks the file or
\* the collection.  No call raises; the tree changes only while both are
\* idle.
\* ==================================================================

\* VaultIndexer.state of instance i
LedgerOf(i) == IF runs[i].loaded THEN runs[i].files ELSE load(disk)

pairRest == <<model_dimensions, state, pc, args, locals, result, faults, hist,
              io, prevClean>>
pairOthers == <<pairRest, loaderVars, chunkerVars, walkerVars, searcherVars>>

PairWrite(p, c) ==
    /\ \A i \in Instances : runs[i].pc = "idle"
    /\ edits < MaxEdits
    /\ ~fs[p].exists \/ fs[p].content # c
    /\ fs' = [fs EXCEPT ![p] = [exists |-> TRUE, content |-> c,
                                mtime |-> NewMTime(p)]]
    /\ edits' = edits + 1
    /\ UNCHANGED <<disk, collection, nextId, runs, pairOthers>>

PairRemove(p) ==
    /\ \A i \in Instances : runs[i].pc = "idle"
    /\ edits < MaxEdits
    /\ fs[p].exists
    /\ fs' = [fs EXCEPT ![p] = NoFile]
    /\ edits' = edits + 1
    /\ UNCHANGED <<disk, collection, nextId, runs, pairOthers>>

\* index(force=fo) of a new instance: ensure_collection, the walk
PairCall(i, fo) ==
    /\ runs[i].pc = "idle"
    /\ collection' = ensure_collection(collection)
    /\ runs' = [runs EXCEPT ![i] = [NoRun EXCEPT !.pc = "for",
                                                 !.ran = runs[i].ran,
                                                 !.force = fo,
                                                 !.file_infos = walk]]
    /\ UNCHANGED <<fs, edits, disk, nextId, pairOthers>>

\* for file_info in file_infos; after the last one, find_deleted
PairFor(i) ==
    /\ runs[i].pc = "for"
    /\ runs' = [runs EXCEPT ![i] =
          IF runs[i].file_infos # <<>>
          THEN [@ EXCEPT !.file_info = Head(runs[i].file_infos),
                         !.file_infos = Tail(runs[i].file_infos),
                         !.old_chunk_ids = <<>>, !.content = 0,
                         !.chunk_ids = <<>>,
                         !.pc = "compute_hash"]
          ELSE LET gone == find_deleted(LedgerOf(i))
               IN [@ EXCEPT !.file_info = NoFileInfo,
                            !.loaded = TRUE, !.files = LedgerOf(i),
                            !.deleted = gone,
                            !.pc = IF gone = <<>> THEN "save" ELSE "purge"]]
    /\ UNCHANGED <<fs, edits, disk, collection, nextId, pairOthers>>

\* compute_hash, needs_reindex, remove_file (lines 161-169)
PairComputeHash(i) ==
    /\ runs[i].pc = "compute_hash"
    /\ LET r == runs[i]
           fi == [r.file_info EXCEPT
                      !.content_hash = xxh64(fs[r.file_info.relative_path].content)]
           st == LedgerOf(i)
           old == remove_file_ids(st, fi.relative_path)
       IN runs' = [runs EXCEPT ![i] =
              IF ~r.force /\ ~needs_reindex(st, fi)
              THEN [@ EXCEPT !.file_info = fi, !.loaded = TRUE, !.files = st,
                             !.pc = "for"]
              ELSE [@ EXCEPT !.file_info = fi, !.loaded = TRUE,
                             !.files = remove_file(st, fi.relative_path),
                             !.old_chunk_ids = old,
                             !.pc = IF old # <<>> THEN "delete_chunks"
                                    ELSE "read_text"]]
    /\ UNCHANGED <<fs, edits, disk, collection, nextId, pairOthers>>

\* self._delete_chunks(old_chunk_ids) (line 171)
PairDeleteOld(i) ==
    /\ runs[i].pc = "delete_chunks"
    /\ collection' = [collection EXCEPT
           !.points = delete_points(@, runs[i].old_chunk_ids)]
    /\ runs' = [runs EXCEPT ![i].pc = "read_text"]
    /\ UNCHANGED <<fs, edits, disk, nextId, pairOthers>>

\* _index_file: read_text, chunk, embed_batch (lines 211-222)
PairReadText(i) ==
    /\ runs[i].pc = "read_text"
    /\ LET c == fs[runs[i].file_info.relative_path].content
       IN runs' = [runs EXCEPT ![i].content = c,
                               ![i].pc = IF ChunkCount(c) = 0 THEN "update_file"
                                         ELSE "upsert"]
    /\ UNCHANGED <<fs, edits, disk, collection, nextId, pairOthers>>

\* _index_file: a uuid4 per chunk, client.upsert (lines 224-251)
PairUpsert(i) ==
    /\ runs[i].pc = "upsert"
    /\ nextId + ChunkCount(runs[i].content) <= MaxIds
    /\ LET ids == NewIds(ChunkCount(runs[i].content))
       IN /\ collection' = [collection EXCEPT
                 !.points = @ \cup BuildPoints(runs[i].file_info,
                                               runs[i].content, ids)]
          /\ runs' = [runs EXCEPT ![i].chunk_ids = ids,
                                  ![i].pc = "update_file"]
    /\ nextId' = nextId + ChunkCount(runs[i].content)
    /\ UNCHANGED <<fs, edits, disk, pairOthers>>

\* self.state.update_file(file_info, chunk_ids) (line 178)
PairUpdateFile(i) ==
    /\ runs[i].pc = "update_file"
    /\ runs' = [runs EXCEPT
           ![i].files = update_file(LedgerOf(i), runs[i].file_info,
                                    runs[i].chunk_ids),
           ![i].loaded = TRUE,
           ![i].pc = "for"]
    /\ UNCHANGED <<fs, edits, disk, collection, nextId, pairOthers>>

\* for rel_path in deleted: remove_file, _delete_chunks (lines 189-194)
PairPurge(i) ==
    /\ runs[i].pc = "purge"
    /\ runs[i].deleted # <<>>
    /\ LET rel_path == Head(runs[i].deleted)
           ids == remove_file_ids(LedgerOf(i), rel_path)
           rest == Tail(runs[i].deleted)
       IN /\ runs' = [runs EXCEPT
                 ![i].files = remove_file(LedgerOf(i), rel_path),
                 ![i].deleted = rest,
                 ![i].pc = IF rest = <<>> THEN "save" ELSE "purge"]
          /\ collection' = IF ids = <<>> THEN collection
                           ELSE [collection EXCEPT
                                    !.points = delete_points(@, ids)]
    /\ UNCHANGED <<fs, edits, disk, nextId, pairOthers>>

\* self.state.save(self.config.state_path); return result (lines 197-199)
PairSave(i) ==
    /\ runs[i].pc = "save"
    /\ disk' = save(LedgerOf(i))
    /\ runs' = [runs EXCEPT ![i] = [NoRun EXCEPT !.ran = TRUE]]
    /\ UNCHANGED <<fs, edits, collection, nextId, pairOthers>>

PairNext ==
    \/ \E p \in Paths, c \in Contents : PairWrite(p, c)
    \/ \E p \in Paths : PairRemove(p)
    \/ \E i \in Instances, fo \in BOOLEAN : PairCall(i, fo)
    \/ \E i \in Instances :
          \/ PairFor(i)
          \/ PairComputeHash(i)
          \/ PairDeleteOld(i)
          \/ PairReadText(i)
          \/ PairUpsert(i)
          \/ PairUpdateFile(i)
          \/ PairPurge(i)
          \/ PairSave(i)

SpecPair == Init /\ [][PairNext]_vars


\* ==================================================================
\* VaultSearcher alone (search.py)
\* ==================================================================

\* The shapes in which get_collection() reports the vectors of a collection:
\* one unnamed vector (info.config.params.vectors.size), a dict of named
\* vectors (the first one's size is read), or neither (no dense vector).
VectorShapes == {"single", "named", "none"}
Remotes ==
    {NoRemote}
        \cup {[exists |-> TRUE, vectors |-> v, size |-> d] :
                  v \in {"single", "named"}, d \in Dimensions}
        \cup {[exists |-> TRUE, vectors |-> "none", size |-> 0]}

\* The size _verify_collection_schema reads from the collection info; 0 is
\* Python's None.
actual_size(collection_info) ==
    CASE collection_info.vectors = "single" -> collection_info.size
      [] collection_info.vectors = "named" -> collection_info.size
      [] OTHER -> 0

\* The same check that lets any size pass.
_verify_collection_schema_any(answered, remote, expected) ==
    IF ~answered \/ ~remote.exists THEN "RuntimeError" ELSE ""

\* _verify_collection_schema(): "" when it returns, the exception otherwise.
\* answered is FALSE when get_collection() raised.
_verify_collection_schema(answered, remote, expected) ==
    IF ~answered \/ ~remote.exists
    THEN "RuntimeError"
    ELSE LET actual == actual_size(remote)
         IN IF actual # 0 /\ actual # expected THEN "RuntimeError" ELSE ""

\* The client property: the client is built on first access, and the
\* schema is verified unless verify_schema is off or it has passed before.
\* Returns the searcher afterwards, the exception and the get_collection()
\* calls made.
client(s, answered) ==
    LET built == [s EXCEPT !._client = TRUE]
    IN IF s.verify_schema /\ ~s._schema_verified
       THEN LET e == _verify_collection_schema(answered, qdrant,
                                               s.model_dimensions)
            IN IF e # ""
               THEN [self |-> built, raised |-> e, get_collections |-> 1]
               ELSE [self |-> [built EXCEPT !._schema_verified = TRUE],
                     raised |-> "", get_collections |-> 1]
       ELSE [self |-> built, raised |-> "", get_collections |-> 0]

SearcherInit ==
    /\ IndexerInit /\ LoaderUnused /\ ChunkerUnused /\ WalkerUnused
    /\ PairUnused
    /\ qdrant \in Remotes
    /\ searcher = NoSearcher
    /\ sio = NoCalls

\* VaultSearcher(config, verify_schema)
NewSearcher(verify_schema, dims) ==
    /\ searcher' = [made |-> TRUE, verify_schema |-> verify_schema,
                    model_dimensions |-> dims, _client |-> FALSE,
                    _schema_verified |-> FALSE]
    /\ sio' = NoCalls
    /\ UNCHANGED <<qdrant, indexerVars, loaderVars, chunkerVars, walkerVars,
                 pairVars>>

\* The collection is created, recreated or dropped by someone else.
RemoteChange(r) ==
    /\ r # qdrant
    /\ qdrant' = r
    /\ UNCHANGED <<searcher, sio, indexerVars, loaderVars, chunkerVars,
                   walkerVars, pairVars>>

\* search(query, path_filter, path_prefix): the query is embedded, both
\* filters together are refused, then the client is asked for query_points.
Search(both, answered) ==
    /\ searcher.made
    /\ IF both
       THEN /\ sio' = [NoCalls EXCEPT !.op = "search", !.embeds = 1,
                                      !.raised = "ValueError"]
            /\ UNCHANGED searcher
       ELSE LET c == client(searcher, answered)
            IN /\ searcher' = c.self
               /\ sio' = [op |-> "search", embeds |-> 1,
                          get_collections |-> c.get_collections,
                          scrolls |-> 0,
                          queries |-> IF c.raised = "" THEN 1 ELSE 0,
                          raised |-> c.raised]
    /\ UNCHANGED <<qdrant, indexerVars, loaderVars, chunkerVars, walkerVars,
                 pairVars>>

\* search_by_path(path): the client is asked to scroll for the units of the
\* path, and, when there are some, asked again for query_points.
SearchByPath(found, answered) ==
    /\ searcher.made
    /\ LET c == client(searcher, answered)
       IN IF c.raised # ""
          THEN /\ searcher' = c.self
               /\ sio' = [op |-> "search_by_path", embeds |-> 0,
                          get_collections |-> c.get_collections,
                          scrolls |-> 0, queries |-> 0, raised |-> c.raised]
          ELSE LET d == client(c.self, answered)
               IN /\ searcher' = IF found THEN d.self ELSE c.self
                  /\ sio' = [op |-> "search_by_path", embeds |-> 0,
                             get_collections |->
                                 c.get_collections
                                     + IF found THEN d.get_collections ELSE 0,
                             scrolls |-> 1,
                             queries |-> IF found THEN 1 ELSE 0,
                             raised |-> ""]
    /\ UNCHANGED <<qdrant, indexerVars, loaderVars, chunkerVars, walkerVars,
                 pairVars>>

SearcherNext ==
    \/ \E v \in BOOLEAN, d \in Dimensions : NewSearcher(v, d)
    \/ \E r \in Remotes : RemoteChange(r)
    \/ \E both \in BOOLEAN, answered \in BOOLEAN : Search(both, answered)
    \/ \E found \in BOOLEAN, answered \in BOOLEAN : SearchByPath(found, answered)

SpecSearcher == SearcherInit /\ [][SearcherNext]_vars


\* ==================================================================
\* Properties
\* ==================================================================
Entry(st, p) == IF p \in DOMAIN st THEN <<st[p]>> ELSE <<>>
PrePointsOf(p) == {pt.id : pt \in {q \in pre.points : q.path = p}}
StoredIds == {pt.id : pt \in collection.points}
IndexReturned == op = "index" /\ pc = "returned"

\* C1: whenever no call is in progress, each ledger entry's unit_ids is
\* exactly the set of point ids the collection holds for that entry's path.
C1_LedgerMatchesStore ==
    pc = "idle" =>
        \A p \in DOMAIN StateFiles : Range(StateFiles[p].chunk_ids) = PointsOf(p)

\* C2: a full index() with force=False that immediately follows a full
\* index() without errors, on an unchanged tree, processes no file, adds and
\* removes no unit and leaves every ledger entry as it was; without errors of
\* its own it skips every file.
C2_Idempotent ==
    (IndexReturned /\ prevClean /\ files.none /\ ~force) =>
        /\ result.files_processed = 0
        /\ result.chunks_added = 0 /\ result.chunks_removed = 0
        /\ result.files_deleted = 0
        /\ collection.points = pre.points
        /\ StateFiles = pre.files
        /\ load(disk) = pre.files
        /\ result.errors = <<>> => result.files_skipped = Len(walk)

C2_Witness ==
    /\ IndexReturned /\ prevClean /\ files.none /\ ~force
    /\ result.files_skipped = 2
    /\ \E p \in DOMAIN pre.files : Len(pre.files[p].chunk_ids) = 2

\* C3: with force=False a file is skipped exactly when the ledger holds an
\* entry for its path whose fingerprint is the fingerprint of the file's
\* current content; the modification time plays no part.
C3_ContentOnly ==
    [][(/\ pc = "compute_hash" /\ pc' # "compute_hash"
        /\ ~force
        /\ thrown' = thrown)
       => LET p == file_info.relative_path
          IN (result'.files_skipped = result.files_skipped + 1)
             <=> (/\ p \in DOMAIN StateFiles
                  /\ StateFiles[p].hash = xxh64(fs[p].content))]_vars

\* A touched file (ledger mtime differs, content identical) has just been skipped.
C3_Witness ==
    /\ op = "index" /\ pc = "for" /\ ~force
    /\ file_info.relative_path \in DOMAIN StateFiles
    /\ LET p == file_info.relative_path
       IN /\ StateFiles[p].mtime # fs[p].mtime
          /\ StateFiles[p].hash = file_info.content_hash
          /\ StateFiles[p].chunk_ids # <<>>
    /\ result.files_skipped >= 1

WorkingPaths ==
    {WorkingSet(files)[i].relative_path : i \in 1..Len(WorkingSet(files))}
NeedsIndexing(p) ==
    force \/ p \notin DOMAIN pre.files \/ pre.files[p].hash # xxh64(fs[p].content)

\* C4: a failure of one file's processing never ends index(); when every
\* working-set file needs indexing and exactly one of them raises, index()
\* returns one error entry naming that file, files_processed = N-1, and the
\* persisted ledger holds the entry of each of the other N-1 files.
C4_ErrorIsolation ==
    /\ (op = "index" /\ pc = "raised" /\ prechecked) =>
            (io.last = "delete" /\ deleted # <<>> /\ file_infos = <<>>)
    /\ (IndexReturned /\ Len(thrown) = 1 /\ \A p \in WorkingPaths : NeedsIndexing(p)) =>
        LET bad == thrown[1].path
        IN /\ Len(result.errors) = 1
           /\ result.errors[1].path = bad
           /\ result.files_processed = Len(WorkingSet(files)) - 1
           /\ result.files_skipped = 0
           /\ \A p \in WorkingPaths \ {bad} :
                /\ p \in DOMAIN load(disk)
                /\ load(disk)[p].hash = xxh64(fs[p].content)
                /\ Len(load(disk)[p].chunk_ids) = ChunkCount(fs[p].content)
                /\ Range(load(disk)[p].chunk_ids) \subseteq PointsOf(p)

C4_Witness ==
    /\ IndexReturned /\ Len(thrown) = 1
    /\ \A p \in WorkingPaths : NeedsIndexing(p)
    /\ Len(WorkingSet(files)) = 2
    /\ result.files_processed = 1
    /\ result.chunks_added >= 1

\* C5: after the run, the ledger entry and the stored units of a file whose
\* processing raised are exactly what they were before the run.
C5_FailedFileUntouched ==
    IndexReturned =>
        \A i \in 1..Len(thrown) :
            LET p == thrown[i].path
            IN /\ Entry(StateFiles, p) = Entry(pre.files, p)
               /\ PointsOf(p) = PrePointsOf(p)

\* C6: every index() that passed the collection pre-check has written the
\* ledger file exactly once when it ends, as its last I/O.
C6_SavedExactlyOnce ==
    (op = "index" /\ pc \in {"returned", "raised"} /\ prechecked) =>
        (io.saves = 1 /\ io.last = "save")

\* C7: after a full index() (files=None) has returned, every path that had a
\* ledger entry before the run and whose file is gone has no ledger entry and
\* none of its recorded unit ids is stored; find_deleted yields exactly those
\* paths and files_deleted is their number.
Vanished == {p \in DOMAIN pre.files : ~fs[p].exists}

C7_DeletedReconciled ==
    (IndexReturned /\ files.none) =>
        /\ \A p \in Vanished :
            /\ p \notin DOMAIN StateFiles
            /\ p \notin DOMAIN load(disk)
            /\ Range(pre.files[p].chunk_ids) \cap StoredIds = {}
        /\ Range(find_deleted(pre.files)) = Vanished
        /\ result.files_deleted = Cardinality(Vanished)

C7_Witness ==
    /\ IndexReturned /\ files.none
    /\ \E p \in Vanished : pre.files[p].chunk_ids # <<>>
    /\ result.files_deleted = 1
    /\ result.chunks_removed >= 1

\* C8: an index() given an explicit list (any value of files but None) does
\* no deletion reconciliation: files_deleted = 0, and the ledger entry and
\* the stored units of every path outside the list are unchanged.
C8_ScopedNoDeletion ==
    (IndexReturned /\ ~files.none) =>
        /\ result.files_deleted = 0
        /\ \A p \in Paths \ Range(files.list) :
            /\ Entry(StateFiles, p) = Entry(pre.files, p)
            /\ PointsOf(p) = PrePointsOf(p)

\* C9: when the collection pre-check fails, index() raises at once: no file
\* is enumerated or read, no ledger entry changes, the ledger file is not
\* written and no delete or upsert reaches the store.
C9_PrecheckAbort ==
    (op = "index" /\ ~prechecked) =>
        /\ pc = "raised"
        /\ io = NoIo
        /\ file_infos = <<>>
        /\ result = IndexResult
        /\ StateFiles = pre.files
        /\ disk = pre.disk
        /\ collection.points = pre.points

C9_Witness ==
    /\ op = "index" /\ pc = "raised" /\ ~prechecked
    /\ \E p \in Paths : fs[p].exists /\ NeedsIndexing(p)
    /\ \E p \in DOMAIN pre.files : pre.files[p].chunk_ids # <<>>

\* C10: index() against a collection whose vector size differs from
\* model_dimensions raises before any file is processed and leaves the
\* ledger and the store unchanged.
C10_MismatchAborts ==
    (op = "index" /\ collection.exists /\ collection.dim # model_dimensions) =>
        /\ pc = "raised"
        /\ io.reads = 0
        /\ StateFiles = pre.files
        /\ disk = pre.disk
        /\ collection.points = pre.points

\* C11: after delete_file(path) has returned for a path that had a ledger
\* entry, the path is in neither the in-memory ledger nor the ledger file,
\* none of the entry's unit ids is stored and the value returned is the
\* number of ids the entry held; for a path without entry it returns 0 and
\* changes nothing.
C11_DeleteFilePurges ==
    (op = "delete_file" /\ pc = "returned") =>
        IF relative_path \in DOMAIN pre.files
        THEN /\ relative_path \notin DOMAIN StateFiles
             /\ relative_path \notin DOMAIN load(disk)
             /\ Range(pre.files[relative_path].chunk_ids) \cap StoredIds = {}
             /\ ret = Len(pre.files[relative_path].chunk_ids)
        ELSE /\ ret = 0
             /\ StateFiles = pre.files
             /\ disk = pre.disk
             /\ collection = [collection EXCEPT !.points = pre.points]

\* C12: whenever clear() has returned, the in-memory ledger and the ledger
\* file have no entry and the collection holds no unit.
C12_ClearEmptiesAll ==
    (op = "clear" /\ pc = "returned") =>
        /\ StateFiles = EmptyLedger
        /\ load(disk) = EmptyLedger
        /\ collection.points = {}

\* C13: status() changes neither the ledger file, nor the set of ledger
\* entries, nor the store, also when the statistics call fails; the
\* indexed_files it returns is the number of ledger entries.
C13_StatusReadOnly ==
    (op = "status" /\ pc = "returned") =>
        /\ disk = pre.disk
        /\ StateFiles = pre.files
        /\ collection.points = pre.points
        /\ io = NoIo
        /\ info.indexed_files = Cardinality(DOMAIN StateFiles)

C13_Witness ==
    /\ op = "status" /\ pc = "returned"
    /\ collection.points # {}
    /\ info.total_chunks = 0
    /\ info.indexed_files >= 1
    /\ state.files # load(disk)

\* C14: IndexState.load never raises; for a missing file, and for a file
\* that does not hold an object whose "files" is a ledger, it returns an
\* empty ledger.
WellFormed(f) == f.exists /\ f.kind = "object" /\ f.files_kind = "object"

C14_LoadNeverFails ==
    load_ret.called =>
        /\ load_ret.raised = ""
        /\ load_ret.files_kind = "object"
        /\ ~WellFormed(ledger_path) => load_ret.files = EmptyLedger

\* ------------------------------------------------------ MarkdownChunker
Units == chunks.list
StrippedContent == _strip_frontmatter(Places(doc))
Sections == _split_by_headings(StrippedContent)
SubChunks(n) == _split_section(Sections[n].text, Sections[n].line_start)
TrimmedLen(text) == Len(strip(text))
UnitsOf(n) == {i \in 1..Len(Units) : Units[i].section = n}
UnitFrom(n, k) == \E i \in UnitsOf(n) : Units[i].part = k

\* C15: every Chunk yielded has a trimmed length of at least min_chunk_size,
\* unless it is the only sub_chunk of a section whose own trimmed length is
\* below min_chunk_size.
C15_MinimumSize ==
    chunks.yielded =>
        \A i \in 1..Len(Units) :
            \/ TrimmedLen(Units[i].src) >= chunker.min_chunk_size
            \/ /\ Len(SubChunks(Units[i].section)) = 1
               /\ TrimmedLen(Sections[Units[i].section].text) < chunker.min_chunk_size

C15_Witness ==
    /\ chunks.yielded
    /\ \E n \in 1..Len(Sections) :
        /\ Len(SubChunks(n)) >= 2
        /\ \E k \in 1..Len(SubChunks(n)) :
            TrimmedLen(SubChunks(n)[k].text) < chunker.min_chunk_size
        /\ UnitsOf(n) # {}

\* C16: every section with text that is not whitespace contributes at least
\* one Chunk.
C16_ShortSectionKept ==
    chunks.yielded => \A n \in 1..Len(Sections) : UnitsOf(n) # {}

\* C16, as the code has it: a sub_chunk becomes a Chunk exactly when its
\* trimmed length is at least min_chunk_size, whether or not its section
\* produced other sub_chunks; a section all of whose sub_chunks are shorter
\* contributes no Chunk.
C16_ShortSectionDropped ==
    chunks.yielded =>
        LET sections == Sections
        IN \A n \in 1..Len(sections) :
            LET sub_chunks == _split_section(sections[n].text, sections[n].line_start)
            IN \A k \in 1..Len(sub_chunks) :
                UnitFrom(n, k)
                    <=> TrimmedLen(sub_chunks[k].text) >= chunker.min_chunk_size

C16_Witness ==
    /\ chunks.yielded
    /\ Units # <<>>
    /\ \E n \in 1..Len(Sections) :
        /\ Len(SubChunks(n)) = 1
        /\ TrimmedLen(Sections[n].text) \in 1..(chunker.min_chunk_size - 1)
        /\ UnitsOf(n) = {}

\* The lines of the content chunk() works on, the line a place of the content
\* is on, and the lines that lie strictly between an opening fence line (the
\* test of _split_paragraphs) and its closing fence line.
ContentLines == split(StrippedContent)
InFence(i) ==
    LET lines == ContentLines
        fences == {j \in 1..Len(lines) : startswith(lines[j], Fence)}
    IN /\ i \notin fences
       /\ Cardinality({j \in fences : j < i}) % 2 = 1
       /\ \E j \in fences : j > i
LineIn(lines, p) ==
    CHOOSE i \in 1..Len(lines) : \E q \in 1..Len(lines[i]) : lines[i][q] = p
LineOf(p) == LineIn(ContentLines, p)

\* C17: no Chunk begins or ends strictly inside a fenced code region: the
\* line of its first character and the line of its last character are not
\* lines between an opening fence line and its closing fence line.
C17_FenceIntegrity ==
    chunks.yielded =>
        \A i \in 1..Len(Units) :
            /\ ~InFence(LineOf(Units[i].src[1]))
            /\ ~InFence(LineOf(Units[i].src[Len(Units[i].src)]))

\* The heading a line of the content stands under: the title of the nearest
\* heading line at or above it, None above the first heading line.
HeadingIn(lines, i) ==
    LET above == {j \in 1..i : heading_match(lines[j])}
    IN IF above = {} THEN None ELSE Some(group2(lines[Max(above)]))

\* C18: every character of a Chunk comes from under the heading the Chunk
\* carries: from the span between the heading line with that trimmed title
\* and the next heading line, or from above the first heading line when the
\* Chunk carries none.
C18_HeadingPropagation ==
    chunks.yielded =>
        LET lines == ContentLines
        IN \A i \in 1..Len(Units) :
            \A q \in 1..Len(Units[i].src) :
                Units[i].src[q] > 0
                    => Units[i].heading = HeadingIn(lines, LineIn(lines, Units[i].src[q]))

C18_Witness ==
    /\ chunks.yielded
    /\ \E i, j, k \in 1..Len(Units) :
        /\ i < j /\ j < k
        /\ ~Units[i].heading.some
        /\ Units[j].heading.some /\ Units[k].heading.some
        /\ Units[j].heading # Units[k].heading

\* What strip() takes from the front of a str, and str.startswith on the
\* characters of two strs.
lstrip(s) ==
    LET inked == {i \in 1..Len(s) : ~isspace(s[i])}
    IN IF inked = {} THEN <<>> ELSE SubSeq(s, Min(inked), Len(s))
IsPrefix(a, b) == Len(a) <= Len(b) /\ \A i \in 1..Len(a) : a[i] = b[i]

\* overlap_text of line 162 for the k-th sub_chunk of section n, and the
\* Chunks that follow one another out of one section.
Overlap(n, k) == _get_overlap(SubChunks(n)[k].text)
Consecutive == {i \in 1..(Len(Units) - 1) : Units[i].section = Units[i + 1].section}

\* C19: for two consecutive Chunks of one section, the overlap taken from
\* the end of the first (_get_overlap: at most chunk_overlap characters, cut
\* at a boundary) is a prefix of the text of the second.
C19_OverlapContinuity ==
    chunks.yielded =>
        \A i \in Consecutive :
            IsPrefix(Text(Overlap(Units[i].section, Units[i].part)), Units[i + 1].text)

\* C19, as the code has it: the second Chunk's text is the stripped
\* overlap_text + para, so it begins with the overlap less the whitespace at
\* its front.
C19_StrippedOverlapContinuity ==
    chunks.yielded =>
        \A i \in Consecutive :
            Units[i + 1].part = Units[i].part + 1 =>
                IsPrefix(Text(lstrip(Overlap(Units[i].section, Units[i].part))),
                         Units[i + 1].text)

C19_Witness ==
    /\ chunks.yielded
    /\ \E i \in Consecutive :
        LET overlap_text == Overlap(Units[i].section, Units[i].part)
        IN /\ Units[i + 1].part = Units[i].part + 1
           /\ lstrip(overlap_text) # <<>>
           /\ lstrip(overlap_text) # overlap_text

\* C20: the chunk_index values of the Chunks are 0, 1, ..., n-1 in the order
\* they are yielded, across all sections, also when sub_chunks were discarded.
C20_IndexSequence ==
    chunks.yielded => \A i \in 1..Len(Units) : Units[i].chunk_index = i - 1

C20_Witness ==
    /\ chunks.yielded
    /\ \E i, j \in 1..Len(Units) :
        /\ i < j
        /\ Units[i].section < Units[j].section
        /\ \E n \in 1..Units[i].section :
            \E k \in 1..Len(SubChunks(n)) :
                /\ ~UnitFrom(n, k)
                /\ n < Units[i].section \/ k < Units[i].part

\* C21: a content without heading lines and without a leading metadata
\* block, of at most chunk_size characters and of trimmed length at least
\* min_chunk_size, yields exactly one Chunk: chunk_index 0, no heading, and
\* the trimmed content as its text.
Plain ==
    /\ StrippedContent = Places(doc)
    /\ \A i \in 1..Len(ContentLines) : ~heading_match(ContentLines[i])

C21_SingleUnitVerbatim ==
    (/\ chunks.yielded
     /\ Plain
     /\ Len(doc) <= chunker.chunk_size
     /\ TrimmedLen(Places(doc)) >= chunker.min_chunk_size)
        => /\ Len(Units) = 1
           /\ Units[1].chunk_index = 0
           /\ ~Units[1].heading.some
           /\ Units[1].text = Text(strip(Places(doc)))

\* C22: walk() yields exactly the regular files under the root whose
\* extension, compared without regard to case, is in include_extensions and
\* which neither the configured exclusion patterns nor the patterns of the
\* root's .gitignore exclude; each once, with content_hash not computed.
Excluded(lines, p) == PathSpec_match_file(from_lines(lines), p)

Wanted ==
    {p \in Range(WalkOrder) :
        /\ tree[p] = "file"
        /\ lower(suffix(p)) \in walker.include_extensions
        /\ ~Excluded(walker.exclude_patterns, p)
        /\ ~(gitignore.exists /\ Excluded(gitignore.lines, p))}

C22_WalkYieldsExactly ==
    walked.yielded =>
        /\ {walked.list[i].relative_path : i \in 1..Len(walked.list)} = Wanted
        /\ Len(walked.list) = Cardinality(Wanted)
        /\ \A i \in 1..Len(walked.list) : walked.list[i].content_hash = ""

\* C23: every Chunk has at most chunk_size characters (the configurations in
\* use all have chunk_overlap < chunk_size).
C23_BoundedUnits ==
    (chunks.yielded /\ chunker.chunk_overlap < chunker.chunk_size) =>
        \A i \in 1..Len(Units) : Len(Units[i].text) <= chunker.chunk_size

\* C24: for a file index() reindexes, the steps come in this order: the old
\* entry is removed from the ledger and its ids are deleted from the store,
\* then one embed_batch, then one upsert, and only then is the ledger entry
\* written; the entry written lists only ids the upsert has stored.
StepOrder ==
    /\ pc' = "delete_chunks" => pc = "compute_hash"
    /\ pc' = "read_text" =>
          \/ pc = "delete_chunks"
          \/ pc = "compute_hash" /\ old_chunk_ids' = <<>>
    /\ pc' = "embed_batch" => pc = "read_text"
    /\ pc' = "upsert" => pc = "embed_batch"
    /\ pc' = "update_file" =>
          \/ pc = "upsert"
          \/ pc = "read_text" /\ ChunkCount(content') = 0
    /\ pc = "delete_chunks" /\ pc' = "read_text" =>
          /\ io'.deletes = io.deletes + 1
          /\ Range(old_chunk_ids) \cap {pt.id : pt \in collection'.points} = {}
    /\ pc = "embed_batch" /\ pc' = "upsert" => io'.embeds = io.embeds + 1
    /\ pc = "upsert" /\ pc' = "update_file" => io'.upserts = io.upserts + 1

EntryWritten ==
    /\ pc = "update_file"
    /\ file_info.relative_path \notin DOMAIN StateFiles
    /\ Range(old_chunk_ids) \cap StoredIds = {}
    /\ Range(chunk_ids) \subseteq PointsOf(file_info.relative_path)
    /\ Len(chunk_ids) = ChunkCount(content)

C24_ReindexStepOrder ==
    [][/\ (pc' \in {"delete_chunks", "read_text", "embed_batch", "upsert", "update_file"}
              /\ pc' # pc) => StepOrder
       /\ (/\ pc # "idle"
           /\ \E q \in Paths : /\ Entry(StateFiles', q) # Entry(StateFiles, q)
                               /\ Entry(StateFiles', q) # <<>>) => EntryWritten]_vars

C24_Witness ==
    /\ pc = "for"
    /\ io.last = "upsert"
    /\ old_chunk_ids # <<>>
    /\ chunk_ids # <<>>
    /\ Entry(StateFiles, file_info.relative_path)
           = <<[hash |-> file_info.content_hash, mtime |-> file_info.mtime,
                chunk_ids |-> chunk_ids]>>

\* C25: when an index() run has ended, a file whose processing failed in it
\* has a ledger entry with the file's current hash only if the collection
\* holds exactly that entry's ids under the file's path (otherwise the next
\* run without force skips the file), and the file was attempted once.
FailedPaths == {thrown[i].path : i \in 1..Len(thrown)}
Believed(st, p) ==
    /\ p \in DOMAIN st
    /\ fs[p].exists
    /\ st[p].hash = xxh64(fs[p].content)

C25_FailedNeverBelieved ==
    (op = "index" /\ pc \in {"returned", "raised"}) =>
        \A p \in FailedPaths :
            /\ Believed(StateFiles, p) => PointsOf(p) = Range(StateFiles[p].chunk_ids)
            /\ Believed(load(disk), p) => PointsOf(p) = Range(load(disk)[p].chunk_ids)
            /\ Cardinality({i \in 1..Len(thrown) : thrown[i].path = p}) = 1

\* The span of lines between heading lines that line l belongs to.
SpanStart(lines, l) ==
    LET above == {j \in 1..l : heading_match(lines[j])}
    IN IF above = {} THEN 1 ELSE Max(above)
SpanEnd(lines, l) ==
    LET below == {j \in (l + 1)..Len(lines) : heading_match(lines[j])}
    IN IF below = {} THEN Len(lines) ELSE Min(below) - 1

\* The Chunks of sections that _split_section yields whole.
Whole == {i \in 1..Len(Units) : Len(Sections[Units[i].section].text) <= chunker.chunk_size}

\* C26: a Chunk of a section yielded whole has line_start = the number of the
\* section's first line and line_end = the number of its last line, counted in
\* the content without its metadata block; so line_start <= line_end, line_end
\* is at most the number of lines, and Chunks of different sections have
\* separate line ranges.
C26_LineNumbers ==
    chunks.yielded =>
        LET lines == ContentLines
        IN /\ \A i \in Whole :
                LET l == LineIn(lines, Units[i].src[1])
                IN /\ Units[i].line_start = SpanStart(lines, l)
                   /\ Units[i].line_end = SpanEnd(lines, l)
                   /\ Units[i].line_start <= Units[i].line_end
                   /\ Units[i].line_end <= Len(lines)
           /\ \A i, j \in Whole :
                Units[i].section < Units[j].section
                    => Units[i].line_end < Units[j].line_start

\* The places of s from the i-th on, and the first place of s where one of
\* the boundary kinds begins.
From(s, i) == SubSeq(s, i, Len(s))
IsSuffix(r, s) == Len(r) <= Len(s) /\ r = From(s, Len(s) - Len(r) + 1)

\* C27: the overlap is a suffix of the buffer of at most chunk_overlap
\* characters, the whole buffer when that is no longer than chunk_overlap;
\* when the last chunk_overlap characters hold one of ". ", "." + newline,
\* a blank line or a newline, the overlap starts right after the first
\* occurrence of the first of these kinds that occurs, and else it is those
\* last characters.
C27_OverlapRegion ==
    overlap.returned =>
        LET text == Places(doc)
            n == chunker.chunk_overlap
            slice == From(text, Len(text) - n + 1)
            present == {k \in 1..Len(Seps) : find(slice, Seps[k]) # 0}
        IN /\ IsSuffix(overlap.text, text)
           /\ Len(overlap.text) <= n
           /\ Len(text) <= n => overlap.text = text
           /\ Len(text) > n =>
                IF present = {} THEN overlap.text = slice
                ELSE LET sep == Seps[Min(present)]
                     IN overlap.text = From(slice, find(slice, sep) + Len(sep))


\* The collection is missing, or has a vector dimension that is not the
\* one configured.
SchemaMismatch ==
    \/ ~qdrant.exists
    \/ qdrant.vectors \in {"single", "named"}
           /\ qdrant.size # searcher.model_dimensions

\* A step in which the searcher made with verify_schema=True ran search() or
\* search_by_path().
VerifiedSearchStep ==
    /\ searcher.made /\ searcher.verify_schema
    /\ searcher'.verify_schema = searcher.verify_schema
    /\ searcher'.model_dimensions = searcher.model_dimensions
    /\ qdrant' = qdrant
    /\ sio'.op # ""
    /\ <<searcher, sio>>' # <<searcher, sio>>

\* C28: a searcher made with verify_schema=True sends a query or a scroll
\* only once a verification has passed; a call made while the collection is
\* missing or of another dimension, and before any verification has passed,
\* raises without a query or a scroll; a call that raised leaves the
\* verification not passed; and a call made after a verification has passed
\* does not verify again.
C28_VerifyBeforeQuery ==
    [][VerifiedSearchStep =>
          /\ (sio'.queries > 0 \/ sio'.scrolls > 0)
                 => searcher'._schema_verified
          /\ (~searcher._schema_verified /\ SchemaMismatch
                  /\ sio'.raised # "ValueError")
                 => /\ sio'.raised = "RuntimeError"
                    /\ sio'.queries = 0 /\ sio'.scrolls = 0
          /\ sio'.raised = "RuntimeError"
                 => ~searcher'._schema_verified /\ sio'.get_collections = 1
          /\ searcher._schema_verified
                 => sio'.get_collections = 0]_vars
C28_Witness ==
    /\ searcher.made /\ searcher.verify_schema /\ ~searcher._schema_verified
    /\ qdrant.exists /\ qdrant.vectors = "single"
    /\ qdrant.size # searcher.model_dimensions
    /\ sio.op = "search_by_path" /\ sio.raised = "RuntimeError"
    /\ sio.get_collections = 1 /\ sio.scrolls = 0


\* C29: when index() returns, files_processed + files_skipped + the number
\* of error entries is the number of files in the working set.
C29_EveryFileCounted ==
    IndexReturned =>
        result.files_processed + result.files_skipped + Len(result.errors)
            = Len(WorkingSet(files))
C29_Witness ==
    /\ IndexReturned
    /\ Len(WorkingSet(files)) = 2
    /\ result.files_skipped = 1
    /\ Len(result.errors) = 1


\* A unit of the store that the ledger entry of its payload path does not
\* list.
Unlisted(st) ==
    {pt \in collection.points :
        pt.path \notin DOMAIN st \/ pt.id \notin Range(st[pt.path].chunk_ids)}

\* C30: after index(), delete_file() or clear() has returned, every unit in
\* the collection is listed in the unit ids of the ledger entry for its
\* payload path.
C30_NoUnreferencedUnits ==
    (op \in {"index", "delete_file", "clear"} /\ pc = "returned")
        => Unlisted(StateFiles) = {}


\* The units of the collection are the units the ledger file records, path
\* by path.
StoreIsLedgerFile ==
    \A p \in Paths :
        PointsOf(p) = IF p \in DOMAIN load(disk)
                      THEN Range(load(disk)[p].chunk_ids)
                      ELSE {}

\* C31: when an index() run was interrupted before the ledger was saved and
\* a later full-tree index() returns without errors, the collection holds
\* exactly the units the ledger file records.
C31_InterruptedRunRecovered ==
    (IndexReturned /\ files.none /\ result.errors = <<>> /\ faults > 0)
        => StoreIsLedgerFile


\* C32: when index() returns, the fingerprint of every ledger entry is the
\* fingerprint of the content its stored units were chunked from, also when
\* the file was written between the two reads of the run.
C32_FingerprintOfChunkedContent ==
    IndexReturned =>
        \A p \in DOMAIN StateFiles : \A pt \in collection.points :
            pt.id \in Range(StateFiles[p].chunk_ids)
                => xxh64(pt.text) = StateFiles[p].hash


\* The paths walk() enumerates.
Enumerated == {walk[i].relative_path : i \in 1..Len(walk)}

\* C33: after a full-tree index() has returned without errors, the ledger
\* paths are the paths the walker enumerates, and no unit is stored for a
\* file that exists but is not enumerated.
C33_LedgerIsEnumeration ==
    (IndexReturned /\ files.none /\ result.errors = <<>>) =>
        /\ DOMAIN StateFiles = Enumerated
        /\ \A pt \in collection.points :
               fs[pt.path].exists => pt.path \in Enumerated


\* C34: when two index() runs of separate instances over the same ledger
\* file and collection have both finished, however their steps interleaved,
\* the unit ids the ledger file records for every path are the ids stored
\* for that path in the collection.
C34_InterleavedRunsAgree ==
    (\A i \in Instances : runs[i].pc = "idle" /\ runs[i].ran)
        => StoreIsLedgerFile

====
